---- MODULE Spec2Model ----
(***************************************************************************)
(* A model of Imagyn's generation engine:                                  *)
(*   - the graph patcher of ComfyUIClient (comfyui_client.py), which       *)
(*     adapts a workflow template to a request,                            *)
(*   - the job orchestration of ComfyUIClient.generate_image: submit,      *)
(*     wait on the websocket, history, download,                           *)
(*   - the artifact store ImageStorage (storage.py).                       *)
(*                                                                         *)
(* Python strings whose content the code inspects (lower(), substring,     *)
(* concatenation, base64) are sequences of one-character strings.          *)
(* A Python dict that keeps insertion order (the workflow) is a sequence   *)
(* of nodes; a node's "inputs" dict is a function from input names.        *)
(* Optional[...] is a sequence of length 0 (None) or 1.                    *)
(***************************************************************************)
EXTENDS Integers, Sequences, FiniteSets, TLC

VARIABLES
    \* ---- objects: Python passes workflows by reference ----
    heap,          \* object id -> the workflow dict that object holds
    \* ---- one generate_image call per element of Calls ----
    pc,            \* where the call stands in generate_image
    req,           \* its arguments: prompt, negative_prompt, seed, loras, ...
    workflow,            \* the object its local variable `workflow` names
    roles,         \* (positive_node, negative_node) of line 296
    seed,          \* its local `seed` after lines 292-293, an Optional
    prompt_id,     \* the id queue_prompt returned, or None
    start_time,    \* start_time of wait_for_completion (line 62)
    recv_start,    \* when the pending websocket.recv() was started
    error,         \* the exception that ended the call, or "none"
    closed_seen,   \* ConnectionClosed was caught at line 78
    history,       \* what wait_for_completion returned, an Optional
    image_info,    \* save_image_outputs[0] of line 331, an Optional
    result,        \* (image_data, metadata) the call returned, an Optional
    sent,          \* the requests the call has issued, in order
    \* ---- the ComfyUI server and the network ----
    now,           \* the clock, in seconds since the model's start
    epochHi,       \* time.time() at the model's start, in units of 2^16 s
    catalog,       \* the lora_name options /object_info lists
    jobs,          \* prompt_id -> "queued" | "finished", the server's jobs
    socket,        \* per call: "none" | "open" | "closed", its websocket
    inbox,         \* per call: the events its websocket holds, unread
    emitted,       \* how many non-terminal events the server has pushed
    websocket_timeout,  \* the client's per-receive timeout (line 25)
    \* ---- ImageStorage (storage.py) ----
    _metadata_cache,   \* image_id -> the dict stored for it (line 30)
    metadata_file,     \* output/metadata.json on disk
    images_folder,     \* output/images on disk: file_path -> bytes
    stask,             \* per storage task: the operation it is in
    uuids,             \* how many uuid4() values were drawn
    stored,            \* history: image_id -> what store_image was given
    \* ---- the ComfyUIClient instance and the server process around it ----
    client_id,         \* self.client_id of the ComfyUIClient (line 23)
    carried,           \* the client ids its requests have carried, in order
    probe,             \* what check_connection was answered and returned, an Optional
    config,            \* what ImagynConfig.load_from_file was given and came to, an Optional
    object_info        \* what the server answers to GET /object_info

callVars == <<pc, req, workflow, roles, seed, prompt_id, start_time, recv_start, error,
              closed_seen, history, image_info, result, sent>>
serverVars == <<now, epochHi, catalog, jobs, socket, inbox, emitted,
                websocket_timeout>>

storeVars == <<_metadata_cache, metadata_file, images_folder, stask, uuids, stored>>

clientVars == <<client_id, carried>>

toolVars == <<probe, config, object_info>>

vars == <<heap, callVars, serverVars, storeVars, clientVars, toolVars>>

-----------------------------------------------------------------------------
(* Strings *)

UpperChars == <<"A","B","C","D","E","F","G","H","I","J","K","L","M",
                "N","O","P","Q","R","S","T","U","V","W","X","Y","Z">>
LowerChars == <<"a","b","c","d","e","f","g","h","i","j","k","l","m",
                "n","o","p","q","r","s","t","u","v","w","x","y","z">>

LowerChar(c) ==
    IF \E i \in 1..Len(UpperChars) : UpperChars[i] = c
    THEN LowerChars[CHOOSE i \in 1..Len(UpperChars) : UpperChars[i] = c]
    ELSE c

\* str.lower()
Lower(s) == [i \in 1..Len(s) |-> LowerChar(s[i])]

\* Python's `sub in s` for strings
Contains(sub, s) ==
    \E i \in 0..(Len(s) - Len(sub)) : SubSeq(s, i + 1, i + Len(sub)) = sub

W_negative == <<"n","e","g","a","t","i","v","e">>
W_bad      == <<"b","a","d">>
W_worst    == <<"w","o","r","s","t">>
W_ugly     == <<"u","g","l","y">>
W_blurry   == <<"b","l","u","r","r","y">>

\* the list literal of line 135, in its order
NegWords == <<W_negative, W_bad, W_worst, W_ugly, W_blurry>>

\* the f-string of line 155: f"{prompt}. Avoid: {negative_prompt}"
AvoidSep == <<"."," ","A","v","o","i","d",":"," ">>

Ext_safetensors == <<".","s","a","f","e","t","e","n","s","o","r","s">>

-----------------------------------------------------------------------------
(* Workflows *)

None == "None"

HasInput(node, k) == k \in DOMAIN node.inputs

\* dict.get(k, default) on a node's inputs
GetInput(node, k, default) == IF HasInput(node, k) THEN node.inputs[k] ELSE default

\* d[k] = v on a dict: replaces the value, or adds the key
DictSet(d, k, v) == [x \in DOMAIN d \cup {k} |-> IF x = k THEN v ELSE d[x]]

NodeIndex(wf, id) == CHOOSE i \in 1..Len(wf) : wf[i].id = id

\* workflow[node_id]
NodeOf(wf, id) == wf[NodeIndex(wf, id)]

\* a bug: workflow[node_id]["inputs"] = {k: v}, which drops the other inputs
SetInput_replacesInputs(wf, id, k, v) ==
    [wf EXCEPT ![NodeIndex(wf, id)].inputs = [x \in {k} |-> v]]

\* workflow[node_id]["inputs"][k] = v
SetInput(wf, id, k, v) ==
    [wf EXCEPT ![NodeIndex(wf, id)].inputs = DictSet(@, k, v)]

\* json.loads(json.dumps(workflow_template)): a new structure with the same
\* keys, in the same order, and the same values (the templates here hold only
\* strings, numbers and lists, which JSON carries unchanged)
JsonClone(wf) ==
    [i \in 1..Len(wf) |->
        [id |-> wf[i].id, class_type |-> wf[i].class_type,
         inputs |-> [k \in DOMAIN wf[i].inputs |-> wf[i].inputs[k]]]]

RECURSIVE FindFrom(_, _, _)
FindFrom(wf, class_type, i) ==
    IF i > Len(wf) THEN <<>>
    ELSE (IF wf[i].class_type = class_type THEN <<wf[i].id>> ELSE <<>>)
         \o FindFrom(wf, class_type, i + 1)

\* the ids of the nodes of a class, in the workflow's order
_find_nodes_by_class_type(wf, class_type) == FindFrom(wf, class_type, 1)

-----------------------------------------------------------------------------
(* Prompt assignment *)

\* line 135: any(neg_word in current_text for neg_word in [...])
IsNegativeText(current_text) ==
    \E w \in 1..Len(NegWords) : Contains(NegWords[w], current_text)

\* lines 130-140: the loop over clip_text_nodes from position i on
RECURSIVE ScanClipNodes(_, _, _, _, _)
ScanClipNodes(wf, clip_text_nodes, i, positive_node, negative_node) ==
    IF i > Len(clip_text_nodes)
    THEN [positive |-> positive_node, negative |-> negative_node]
    ELSE
        LET node_id == clip_text_nodes[i]
            current_text == Lower(GetInput(NodeOf(wf, node_id), "text", <<>>))
        IN  IF IsNegativeText(current_text)
            THEN ScanClipNodes(wf, clip_text_nodes, i + 1, positive_node,
                     IF negative_node = None THEN node_id ELSE negative_node)
            ELSE ScanClipNodes(wf, clip_text_nodes, i + 1,
                     IF positive_node = None THEN node_id ELSE positive_node,
                     negative_node)

\* a bug: the roles go by order alone, the content is not looked at
ClipRoles_orderOnly(wf) ==
    LET clip_text_nodes == _find_nodes_by_class_type(wf, "CLIPTextEncode")
    IN  [positive |-> IF Len(clip_text_nodes) > 0 THEN clip_text_nodes[1] ELSE None,
         negative |-> IF Len(clip_text_nodes) > 1 THEN clip_text_nodes[2] ELSE None]

\* a bug: no order fallback for the negative role (lines 145-146 missing)
ClipRoles_noNegativeFallback(wf) ==
    LET clip_text_nodes == _find_nodes_by_class_type(wf, "CLIPTextEncode")
        scanned == ScanClipNodes(wf, clip_text_nodes, 1, None, None)
    IN  [positive |-> IF scanned.positive = None /\ Len(clip_text_nodes) > 0
                      THEN clip_text_nodes[1] ELSE scanned.positive,
         negative |-> scanned.negative]

\* a bug: with no text encoder the first node with a text input is taken
ClipRoles_anyTextNode(wf) ==
    LET clip_text_nodes == _find_nodes_by_class_type(wf, "CLIPTextEncode")
        scanned == ScanClipNodes(wf, clip_text_nodes, 1, None, None)
        texts == {i \in 1..Len(wf) : HasInput(wf[i], "text")}
    IN  [positive |-> IF scanned.positive # None THEN scanned.positive
                      ELSE IF Len(clip_text_nodes) > 0 THEN clip_text_nodes[1]
                      ELSE IF texts # {} THEN wf[CHOOSE i \in texts : TRUE].id
                      ELSE None,
         negative |-> IF scanned.negative = None /\ Len(clip_text_nodes) > 1
                      THEN clip_text_nodes[2] ELSE scanned.negative]

\* lines 124-146: the (positive_node, negative_node) the function settles on
ClipRoles(wf) ==
    LET clip_text_nodes == _find_nodes_by_class_type(wf, "CLIPTextEncode")
        scanned == ScanClipNodes(wf, clip_text_nodes, 1, None, None)
        positive_node ==
            IF scanned.positive = None /\ Len(clip_text_nodes) > 0
            THEN clip_text_nodes[1] ELSE scanned.positive
        negative_node ==
            IF scanned.negative = None /\ Len(clip_text_nodes) > 1
            THEN clip_text_nodes[2] ELSE scanned.negative
    IN  [positive |-> positive_node, negative |-> negative_node]

\* a bug: the two prompts go to each other's node
ApplyPromptTexts_swapped(wf, r, prompt, negative_prompt) ==
    LET w1 == IF r.positive # None
              THEN SetInput(wf, r.positive, "text", negative_prompt) ELSE wf
    IN  IF r.negative # None /\ negative_prompt # <<>>
        THEN SetInput(w1, r.negative, "text", prompt)
        ELSE w1

\* a bug: lines 153-156 missing, no append when there is no negative node
ApplyPromptTexts_noAppend(wf, r, prompt, negative_prompt) ==
    LET w1 == IF r.positive # None
              THEN SetInput(wf, r.positive, "text", prompt) ELSE wf
    IN  IF r.negative # None /\ negative_prompt # <<>>
        THEN SetInput(w1, r.negative, "text", negative_prompt)
        ELSE w1

\* lines 148-156: the writes, given the roles
ApplyPromptTexts(wf, r, prompt, negative_prompt) ==
    LET w1 == IF r.positive # None
              THEN SetInput(wf, r.positive, "text", prompt) ELSE wf
    IN  IF r.negative # None /\ negative_prompt # <<>>
        THEN SetInput(w1, r.negative, "text", negative_prompt)
        ELSE IF negative_prompt # <<>> /\ r.positive # None
        THEN SetInput(w1, r.positive, "text",
                      prompt \o AvoidSep \o negative_prompt)
        ELSE w1

\* the workflow after _apply_prompt_to_workflow(workflow, prompt, negative_prompt)
_apply_prompt_to_workflow(wf, prompt, negative_prompt) ==
    ApplyPromptTexts(wf, ClipRoles(wf), prompt, negative_prompt)

-----------------------------------------------------------------------------
(* Seed, dimension and LoRA assignment *)

\* line 163
sampling_classes == <<"KSampler", "KSamplerAdvanced", "SamplerCustom">>

\* line 174
latent_classes == <<"EmptyLatentImage", "EmptySD3LatentImage", "EmptyFluxLatentImage">>

RECURSIVE SeedNodes(_, _, _, _)

\* a bug: the seed is written whether or not the node declares one
SeedNodes_noInputTest(wf, nodes, i, s) ==
    IF i > Len(nodes) THEN wf
    ELSE SeedNodes(SetInput(wf, nodes[i], "seed", s), nodes, i + 1, s)

\* lines 167-169: the inner loop, from position i on
SeedNodes(wf, nodes, i, s) ==
    IF i > Len(nodes) THEN wf
    ELSE SeedNodes(IF HasInput(NodeOf(wf, nodes[i]), "seed")
                   THEN SetInput(wf, nodes[i], "seed", s) ELSE wf,
                   nodes, i + 1, s)

\* lines 165-169: the outer loop over sampling_classes, from position c on
RECURSIVE SeedClasses(_, _, _)
SeedClasses(wf, c, s) ==
    IF c > Len(sampling_classes) THEN wf
    ELSE SeedClasses(
            SeedNodes(wf, _find_nodes_by_class_type(wf, sampling_classes[c]), 1, s),
            c + 1, s)

_apply_seed_to_workflow(wf, s) == SeedClasses(wf, 1, s)

\* lines 178-183
RECURSIVE DimNodes(_, _, _, _, _)
DimNodes(wf, nodes, i, width, height) ==
    IF i > Len(nodes) THEN wf
    ELSE
        LET w1 == IF HasInput(NodeOf(wf, nodes[i]), "width")
                  THEN SetInput(wf, nodes[i], "width", width) ELSE wf
            w2 == IF HasInput(NodeOf(w1, nodes[i]), "height")
                  THEN SetInput(w1, nodes[i], "height", height) ELSE w1
        IN  DimNodes(w2, nodes, i + 1, width, height)

\* lines 176-183
RECURSIVE DimClasses(_, _, _, _)
DimClasses(wf, c, width, height) ==
    IF c > Len(latent_classes) THEN wf
    ELSE DimClasses(
            DimNodes(wf, _find_nodes_by_class_type(wf, latent_classes[c]), 1,
                     width, height),
            c + 1, width, height)

_apply_dimensions_to_workflow(wf, width, height) == DimClasses(wf, 1, width, height)

InList(x, list) == \E i \in 1..Len(list) : list[i] = x

\* lines 213-216: the first available name that contains lora_name,
\* case-insensitively; <<>> (None) when there is none
PartialMatch(lora_name, available_lora_names) ==
    LET hits == {i \in 1..Len(available_lora_names) :
                    Contains(Lower(lora_name), Lower(available_lora_names[i]))}
    IN  IF hits = {} THEN <<>>
        ELSE <<available_lora_names[CHOOSE i \in hits : \A j \in hits : i <= j]>>

\* `not selected_lora`: None and the empty string are both falsy
Falsy(opt) == opt = <<>> \/ opt[1] = <<>>

\* a bug: the partial match is tried before the name with the extension
SelectLora_partialBeforeExtension(lora_name, available_lora_names) ==
    IF InList(lora_name, available_lora_names) THEN <<lora_name>>
    ELSE
        LET selected_lora == PartialMatch(lora_name, available_lora_names)
        IN  IF ~Falsy(selected_lora) THEN selected_lora
            ELSE IF InList(lora_name \o Ext_safetensors, available_lora_names)
            THEN <<lora_name \o Ext_safetensors>>
            ELSE IF Len(available_lora_names) > 0 THEN <<available_lora_names[1]>>
            ELSE <<>>

\* lines 203-223: the selected name as an Optional; <<>> is the early return
SelectLora(lora_name, available_lora_names) ==
    IF InList(lora_name, available_lora_names) THEN <<lora_name>>
    ELSE IF InList(lora_name \o Ext_safetensors, available_lora_names)
    THEN <<lora_name \o Ext_safetensors>>
    ELSE
        LET selected_lora == PartialMatch(lora_name, available_lora_names)
        IN  IF Falsy(selected_lora) /\ Len(available_lora_names) > 0
            THEN <<available_lora_names[1]>>
            ELSE IF Falsy(selected_lora) THEN <<>>
            ELSE selected_lora

F_1_0 == "1.0"

\* lines 225-231
WriteLora(wf, lora_node_id, selected_lora) ==
    LET w1 == SetInput(wf, lora_node_id, "lora_name", selected_lora)
        w2 == IF HasInput(NodeOf(w1, lora_node_id), "strength_model")
              THEN SetInput(w1, lora_node_id, "strength_model", F_1_0) ELSE w1
    IN  IF HasInput(NodeOf(w2, lora_node_id), "strength_clip")
        THEN SetInput(w2, lora_node_id, "strength_clip", F_1_0) ELSE w2

RECURSIVE WriteLoras(_, _, _, _, _)
\* every requested name to the loader of the same rank
WriteLoras(wf, lora_nodes, loras, available_lora_names, i) ==
    IF i > Len(lora_nodes) \/ i > Len(loras) THEN wf
    ELSE LET selected == SelectLora(loras[i], available_lora_names)
         IN  WriteLoras(IF selected = <<>> THEN wf
                        ELSE WriteLora(wf, lora_nodes[i], selected[1]),
                        lora_nodes, loras, available_lora_names, i + 1)

\* a bug: the adapters are chained, one loader for each requested name
_apply_loras_to_workflow_chained(wf, loras, enable_loras, available_lora_names) ==
    IF ~enable_loras \/ Len(loras) = 0 THEN wf
    ELSE WriteLoras(wf, _find_nodes_by_class_type(wf, "LoraLoader"), loras,
                    available_lora_names, 1)

\* the workflow after _apply_loras_to_workflow(workflow, loras, enable_loras),
\* available_lora_names being what _get_available_loras_from_server gave
_apply_loras_to_workflow(wf, loras, enable_loras, available_lora_names) ==
    IF ~enable_loras \/ Len(loras) = 0 THEN wf
    ELSE
        LET lora_nodes == _find_nodes_by_class_type(wf, "LoraLoader")
        IN  IF Len(lora_nodes) = 0 THEN wf
            ELSE
                LET selected == SelectLora(loras[1], available_lora_names)
                IN  IF selected = <<>> THEN wf
                    ELSE WriteLora(wf, lora_nodes[1], selected[1])

\* 2^16: a uint32 is kept as [hi, lo], value hi * 2^16 + lo
Half == 65536

\* line 293: int(time.time()) % (2**32)
Mod32(t) == [hi |-> t.hi % Half, lo |-> t.lo % Half]

\* a bug: the clock taken as it is, line 293 without the modulus
ResolveSeed_noModulus(request_seed, t) ==
    IF request_seed = <<>> THEN t ELSE request_seed[1]

\* lines 292-293
ResolveSeed(request_seed, t) ==
    IF request_seed = <<>> THEN Mod32(t) ELSE request_seed[1]

-----------------------------------------------------------------------------
(* The inputs of the bounded check: templates, requests, catalogs *)

MaxEncoders == 3

T_dog   == <<"a"," ","d","o","g">>
T_Badge == <<"B","a","d","g","e">>
T_ugly  == <<"u","g","l","y">>
\* stands for a text-encoder node that has no "text" input at all
NoText  == <<"-">>

TemplateTexts == {T_dog, T_Badge, T_ugly, NoText}

\* node ids are not in numeric order: the declared order is the position
EncoderIds == <<"6", "2", "7", "5", "1">>

Encoder(id, text) ==
    [id |-> id, class_type |-> "CLIPTextEncode",
     inputs |-> IF text = NoText THEN [clip |-> <<"4", 1>>]
                ELSE [clip |-> <<"4", 1>>, text |-> text]]

L_placeholder == <<"p">> \o Ext_safetensors
L_a == <<"a">> \o Ext_safetensors
L_b == <<"b">> \o Ext_safetensors
L_Big == <<"B","i","g">>

\* the nodes of the other categories: a sampler with a seed, a sampler of
\* another class without one, a latent-size node, two adapter loaders, and
\* nodes of classes no assignment looks for
RestNodes ==
    << [id |-> "4", class_type |-> "CheckpointLoaderSimple",
        inputs |-> [ckpt_name |-> "flux", seed |-> [hi |-> 0, lo |-> 1],
                    width |-> 64, text |-> T_ugly]],
       [id |-> "3", class_type |-> "KSampler",
        inputs |-> [seed |-> [hi |-> 0, lo |-> 42], steps |-> 20]],
       [id |-> "11", class_type |-> "KSamplerAdvanced",
        inputs |-> [noise_seed |-> [hi |-> 0, lo |-> 42], steps |-> 20]],
       [id |-> "12", class_type |-> "EmptySD3LatentImage",
        inputs |-> [width |-> 1024, height |-> 1024, batch_size |-> 1]],
       [id |-> "13", class_type |-> "EmptyLatentImage",
        inputs |-> [width |-> 1024]],
       [id |-> "8", class_type |-> "LoraLoader",
        inputs |-> [lora_name |-> L_placeholder, strength_model |-> "0.8",
                    strength_clip |-> "0.8"]],
       [id |-> "10", class_type |-> "LoraLoader",
        inputs |-> [lora_name |-> L_placeholder, strength_model |-> "0.5"]],
       [id |-> "9", class_type |-> "SaveImage",
        inputs |-> [images |-> <<"8", 0>>]] >>

RestVariants == {RestNodes, <<>>}

SeqsUpTo(S, n) == UNION {[1..k -> S] : k \in 0..n}

\* a template: the first of the other nodes, the text encoders in their
\* declared order, then the remaining other nodes
BuildTemplate(texts, rest) ==
    LET encoders == [i \in 1..Len(texts) |-> Encoder(EncoderIds[i], texts[i])]
    IN  IF rest = <<>> THEN encoders
        ELSE <<rest[1]>> \o encoders \o SubSeq(rest, 2, Len(rest))

\* a template with nodes, none of them of a class an assignment looks for;
\* its first node declares a seed, a width and a text all the same
UnpatchableTemplate == <<RestNodes[1], RestNodes[8]>>

Templates ==
    {BuildTemplate(texts, rest) :
        texts \in SeqsUpTo(TemplateTexts, MaxEncoders), rest \in RestVariants}
    \cup {UnpatchableTemplate}

P_cat == <<"c","a","t">>
N_fog == <<"f","o","g">>

Prompts == {P_cat}
NegativePrompts == {<<>>, N_fog}

\* (request seed, time.time()): unset seeds with a clock below and above
\* 2^32, and a caller's seed 0
SeedCases ==
    { <<(<<>>), [hi |-> 26889, lo |-> 0]>>,
      <<(<<>>), [hi |-> Half + 2, lo |-> 0]>>,
      << <<[hi |-> 0, lo |-> 0]>>, [hi |-> 26889, lo |-> 0]>> }

\* (loras, enable_loras, the server's catalog)
LoraCases ==
    { <<(<<>>), TRUE, <<L_a, L_b>>>>,
      << <<(<<"b">>)>>, TRUE, <<L_a, L_b>>>>,
      << <<(<<"b">>)>>, FALSE, <<L_a, L_b>>>>,
      << <<(<<"c">>), (<<"a">>)>>, TRUE, <<L_a, L_b>>>>,
      << <<(<<"b","i">>)>>, TRUE, <<L_a, L_Big>>>>,
      << <<(<<"b">>)>>, TRUE, (<<>>)>>,
      << <<(<<"b">>)>>, TRUE, <<L_Big, L_b, (<<"b">>)>>>>,
      << <<(<<"b">>)>>, TRUE, <<L_Big, L_b>>>>,
      << <<(<<"c">>), (<<"b">>)>>, TRUE, <<L_a, L_b>>>> }

Request(p, n, sc, lc) ==
    [prompt |-> p, negative_prompt |-> n, seed |-> sc[1], loras |-> lc[1],
     width |-> 512, height |-> 768, enable_loras |-> lc[2]]

NoRoles == [positive |-> None, negative |-> None]

\* the per-receive timeouts tried: the default 30.0 of line 20, and one that
\* is most of the overall timeout
WebsocketTimeouts == {30, 200}

\* The generate_image calls that are followed step by step.  Other calls of the
\* same client show as the jobs they submitted (OtherSubmit) and the events
\* the server pushes for those jobs.
Calls == {"c1"}

\* the object that holds the caller's template
TemplateObj == "template"

\* time.time() as [hi, lo]; the clock of the model stays below 2^16
UnixTime == [hi |-> epochHi, lo |-> now]

-----------------------------------------------------------------------------
(* ImageStorage, storage.py, and GeneratedImage, models.py *)

B64Alphabet ==
    <<"A","B","C","D","E","F","G","H","I","J","K","L","M","N","O","P",
      "Q","R","S","T","U","V","W","X","Y","Z","a","b","c","d","e","f",
      "g","h","i","j","k","l","m","n","o","p","q","r","s","t","u","v",
      "w","x","y","z","0","1","2","3","4","5","6","7","8","9","+","/">>

B64Char(n) == B64Alphabet[n + 1]

B64Index(ch) == (CHOOSE i \in 1..Len(B64Alphabet) : B64Alphabet[i] = ch) - 1

RECURSIVE b64encode(_)
\* base64.b64encode(...).decode('utf-8'): three bytes make four characters,
\* the last group is padded with "="
b64encode(bytes) ==
    IF bytes = <<>> THEN <<>>
    ELSE LET b1 == bytes[1]
         IN  IF Len(bytes) = 1
             THEN <<B64Char(b1 \div 4), B64Char((b1 % 4) * 16), "=", "=">>
             ELSE LET b2 == bytes[2]
                  IN  IF Len(bytes) = 2
                      THEN <<B64Char(b1 \div 4), B64Char((b1 % 4) * 16 + b2 \div 16),
                             B64Char((b2 % 16) * 4), "=">>
                      ELSE LET b3 == bytes[3]
                           IN  <<B64Char(b1 \div 4),
                                 B64Char((b1 % 4) * 16 + b2 \div 16),
                                 B64Char((b2 % 16) * 4 + b3 \div 64),
                                 B64Char(b3 % 64)>>
                               \o b64encode(SubSeq(bytes, 4, Len(bytes)))

RECURSIVE b64decode(_)
\* base64.b64decode of a well-formed text
b64decode(text) ==
    IF text = <<>> THEN <<>>
    ELSE LET c1 == B64Index(text[1])
             c2 == B64Index(text[2])
             rest == b64decode(SubSeq(text, 5, Len(text)))
         IN  IF text[3] = "=" THEN <<c1 * 4 + c2 \div 16>>
             ELSE LET c3 == B64Index(text[3])
                  IN  IF text[4] = "="
                      THEN <<c1 * 4 + c2 \div 16, (c2 % 16) * 16 + c3 \div 4>>
                      ELSE <<c1 * 4 + c2 \div 16, (c2 % 16) * 16 + c3 \div 4,
                             (c3 % 4) * 64 + B64Index(text[4])>> \o rest

\* dict.get(key, default)
DictGet(d, key, default) == IF key \in DOMAIN d THEN d[key] ELSE default

\* models.py, GeneratedImage.to_dict
to_dict(generated_image) ==
    [image_id |-> generated_image.image_id,
     image_url |-> <<"file://", generated_image.file_path>>,
     image_base64 |-> generated_image.base64_data,
     metadata |-> [prompt |-> generated_image.metadata.prompt,
                   negative_prompt |-> generated_image.metadata.negative_prompt,
                   loras_used |-> generated_image.metadata.loras_used,
                   seed |-> generated_image.metadata.seed,
                   width |-> generated_image.metadata.width,
                   height |-> generated_image.metadata.height,
                   steps |-> generated_image.metadata.steps,
                   cfg |-> generated_image.metadata.cfg,
                   workflow_used |-> generated_image.metadata.workflow_used],
     created_at |-> generated_image.created_at]

\* storage.py lines 106-118: GenerationMetadata from the stored dict
ReconstructMetadata(metadata_dict) ==
    [prompt |-> metadata_dict.prompt,
     negative_prompt |-> DictGet(metadata_dict, "negative_prompt", <<>>),
     loras_used |-> DictGet(metadata_dict, "loras_used", <<>>),
     seed |-> DictGet(metadata_dict, "seed", [hi |-> 0, lo |-> 0]),
     width |-> DictGet(metadata_dict, "width", 1024),
     height |-> DictGet(metadata_dict, "height", 1024),
     steps |-> DictGet(metadata_dict, "steps", 20),
     cfg |-> DictGet(metadata_dict, "cfg", "3.5"),
     workflow_used |-> DictGet(metadata_dict, "workflow_used", "")]

\* what a call of the store comes to: a value (an Optional, <<>> is None)
\* or an exception
Returned(value) == [raised |-> "none", value |-> value]
Raised(exception) == [raised |-> exception, value |-> <<>>]

\* storage.py lines 87-126, get_image.  The dict is read by the keys
\* "base64_data" (line 96) and "file_path" (lines 99 and 122).
get_image(cache, files, image_id, include_base64) ==
    IF image_id \notin DOMAIN cache THEN Returned(<<>>)
    ELSE LET image_data == cache[image_id]
             base64_data == DictGet(image_data, "base64_data", <<>>)
             reads == include_base64 /\ Falsy(base64_data)
         IN  IF "file_path" \notin DOMAIN image_data THEN Raised("KeyError")
             ELSE IF reads /\ image_data["file_path"] \notin DOMAIN files
             THEN Returned(<<>>)
             ELSE Returned(<<[image_id |-> image_id,
                              file_path |-> image_data["file_path"],
                              metadata |-> ReconstructMetadata(image_data["metadata"]),
                              created_at |-> image_data["created_at"],
                              base64_data |->
                                  IF reads
                                  THEN <<b64encode(files[image_data["file_path"]])>>
                                  ELSE base64_data]>>)

MaxImages == 2

\* str(uuid.uuid4()): a value not drawn before
Uuids == <<"u1", "u2", "u3", "u4", "u5", "u6">>

StoreTasks == {"s1"}

\* the call a task makes of the store, and the index as that call found it
Asked(op, image_id, limit, entry) ==
    <<[op |-> op, image_id |-> image_id, limit |-> limit, entry |-> entry,
       before |-> _metadata_cache]>>

IdleTask == [step |-> "idle", generated_image |-> <<>>, lookup |-> <<>>, got |-> <<>>,
             asked |-> <<>>, pending |-> <<>>]

ImageDatas == {<<>>, <<0>>, <<0, 1>>, <<0, 1, 255>>, <<137, 80, 78, 71>>}

\* the limits asked for: below 1, within the number of records, above 50
RecentLimits == {-1, 0, 1, 2, 51}

RecentEntries == {"storage", "imagyn_server", "fastmcp_server"}

Meta_cat ==
    [prompt |-> P_cat, negative_prompt |-> <<>>, loras_used |-> <<>>,
     seed |-> [hi |-> 0, lo |-> 0], width |-> 1024, height |-> 1024,
     steps |-> 20, cfg |-> "3.5", workflow_used |-> "txt2img_flux"]

Meta_dog ==
    [prompt |-> T_dog, negative_prompt |-> N_fog, loras_used |-> <<L_a>>,
     seed |-> [hi |-> 1, lo |-> 7], width |-> 512, height |-> 768,
     steps |-> 20, cfg |-> "3.5", workflow_used |-> "txt2img_flux"]

StoreMetadatas == {Meta_cat, Meta_dog}

\* what the store is given: (image_data, metadata, include_base64), the byte
\* strings of every length modulo 3, with and without the image text
StoreInputs ==
    { <<(<<0, 1, 255>>), Meta_cat, TRUE>>,
      <<(<<137, 80, 78, 71>>), Meta_dog, FALSE>>,
      <<(<<>>), Meta_dog, TRUE>>,
      <<(<<0, 1>>), Meta_cat, TRUE>> }

\* a bug: the record enters the index first, and the bytes are not on disk
StoreFile_indexFirst(t, image_data, metadata, include_base64) ==
    /\ stask[t].step = "idle"
    /\ uuids < MaxImages
    /\ \E elapsed \in {0, 1} : now' = now + elapsed
    /\ LET image_id == Uuids[uuids + 1]
           file_path == <<"images", now', image_id>>
           generated_image ==
               [image_id |-> image_id, file_path |-> file_path, metadata |-> metadata,
                created_at |-> now',
                base64_data |-> IF include_base64 THEN <<b64encode(image_data)>>
                                ELSE <<>>]
       IN  /\ uuids' = uuids + 1
           /\ _metadata_cache' = (image_id :> to_dict(generated_image)) @@ _metadata_cache
           /\ stored' = (image_id :> [image_data |-> image_data, metadata |-> metadata,
                                      file_path |-> file_path, created_at |-> now'])
                        @@ stored
           /\ stask' = [stask EXCEPT ![t] =
                  [step |-> "record", generated_image |-> <<generated_image>>,
                   lookup |-> <<>>, got |-> <<>>,
                   asked |-> Asked("store", image_id, 0, "storage"),
                   pending |-> <<generated_image>>]]
    /\ UNCHANGED <<images_folder, metadata_file, heap, clientVars, toolVars, callVars,
                   epochHi, catalog,
                   jobs, socket, inbox, emitted, websocket_timeout>>

\* storage.py lines 56-65 and 68-79: the id, the file on disk, the object.
\* datetime.now() is the clock, which has or has not moved since it was last
\* read.
StoreFile(t, image_data, metadata, include_base64) ==
    /\ stask[t].step = "idle"
    /\ uuids < MaxImages
    /\ \E elapsed \in {0, 1} : now' = now + elapsed
    /\ LET image_id == Uuids[uuids + 1]
           file_path == <<"images", now', image_id>>
           generated_image ==
               [image_id |-> image_id, file_path |-> file_path, metadata |-> metadata,
                created_at |-> now',
                base64_data |-> IF include_base64 THEN <<b64encode(image_data)>>
                                ELSE <<>>]
       IN  /\ uuids' = uuids + 1
           /\ images_folder' = (file_path :> image_data) @@ images_folder
           /\ stored' = (image_id :> [image_data |-> image_data, metadata |-> metadata,
                                      file_path |-> file_path, created_at |-> now'])
                        @@ stored
           /\ stask' = [stask EXCEPT ![t] =
                  [step |-> "record", generated_image |-> <<generated_image>>,
                   lookup |-> <<>>, got |-> <<>>,
                   asked |-> Asked("store", image_id, 0, "storage"),
                   pending |-> <<generated_image>>]]
    /\ UNCHANGED <<_metadata_cache, metadata_file, heap, clientVars, toolVars, callVars,
                   epochHi, catalog,
                   jobs, socket, inbox, emitted, websocket_timeout>>

\* a bug: the record is put into the index as the call found it, and that
\* copy becomes the index
StoreRecord_staleCopy(t) ==
    /\ stask[t].step = "record"
    /\ LET generated_image == stask[t].generated_image[1]
       IN  _metadata_cache' =
               (generated_image.image_id :> to_dict(generated_image))
                   @@ stask[t].asked[1].before
    /\ stask' = [stask EXCEPT ![t].step = "save"]
    /\ UNCHANGED <<metadata_file, images_folder, uuids, stored, heap, clientVars, toolVars,
                   callVars, serverVars>>

\* line 82: the dict of the image enters the cache
StoreRecord(t) ==
    /\ stask[t].step = "record"
    /\ LET generated_image == stask[t].generated_image[1]
       IN  _metadata_cache' =
               (generated_image.image_id :> to_dict(generated_image)) @@ _metadata_cache
    /\ stask' = [stask EXCEPT ![t].step = "save"]
    /\ UNCHANGED <<metadata_file, images_folder, uuids, stored, heap, clientVars, toolVars,
                   callVars, serverVars>>

\* line 44: metadata.json is opened for writing, which empties it
SaveOpen(t) ==
    /\ stask[t].step = "save"
    /\ metadata_file' = [state |-> "empty", content |-> <<>>]
    /\ stask' = [stask EXCEPT ![t].step = "write"]
    /\ UNCHANGED <<_metadata_cache, images_folder, uuids, stored, heap, clientVars,
                   toolVars, callVars,
                   serverVars>>

\* a bug: the index written is the one the call found, not the one it made
SaveWrite_indexBefore(t) ==
    /\ stask[t].step = "write"
    /\ metadata_file' = [state |-> "json", content |-> stask[t].asked[1].before]
    /\ stask' = [stask EXCEPT ![t].step = "idle",
                              ![t].got = Returned(stask[t].pending)]
    /\ UNCHANGED <<_metadata_cache, images_folder, uuids, stored, heap, clientVars,
                   toolVars, callVars,
                   serverVars>>

\* line 45: the cache as it is now is written; store_image returns the image
\* (line 85), delete_image True (line 166)
SaveWrite(t) ==
    /\ stask[t].step = "write"
    /\ metadata_file' = [state |-> "json", content |-> _metadata_cache]
    /\ stask' = [stask EXCEPT ![t].step = "idle",
                              ![t].got = Returned(stask[t].pending)]
    /\ UNCHANGED <<_metadata_cache, images_folder, uuids, stored, heap, clientVars,
                   toolVars, callVars,
                   serverVars>>

\* lines 87-126: a retrieval by an id drawn before, or by one never drawn
GetImage(t, image_id, include_base64) ==
    /\ stask[t].step = "idle"
    /\ stask' = [stask EXCEPT ![t] =
           [step |-> "idle", generated_image |-> <<>>,
            lookup |-> <<[image_id |-> image_id, include_base64 |-> include_base64]>>,
            got |-> get_image(_metadata_cache, images_folder, image_id,
                              include_base64),
            asked |-> Asked("get", image_id, 0, "storage"),
            pending |-> <<>>]]
    /\ UNCHANGED <<_metadata_cache, metadata_file, images_folder, uuids, stored, heap,
                   clientVars, toolVars, callVars, serverVars>>

UuidRank(image_id) == CHOOSE i \in 1..Len(Uuids) : Uuids[i] = image_id

\* the key of the dict that comes first in its order, which is the order of
\* insertion: a task inserts its ids in the order it drew them
FirstInserted(ids) == CHOOSE a \in ids : \A b \in ids : UuidRank(a) <= UuidRank(b)

RECURSIVE SortedFrom(_, _)
\* lines 132-136: sorted(..., key=created_at, reverse=True), which keeps
\* records of equal created_at in the dict's order
SortedFrom(cache, ids) ==
    IF ids = {} THEN <<>>
    ELSE LET newest == {a \in ids : \A b \in ids :
                            cache[a]["created_at"] >= cache[b]["created_at"]}
             next == FirstInserted(newest)
         IN  <<next>> \o SortedFrom(cache, ids \ {next})

\* sequence[:limit], of Python: a negative limit drops from the end
Slice(sequence, limit) ==
    IF limit >= Len(sequence) THEN sequence
    ELSE IF limit >= 0 THEN SubSeq(sequence, 1, limit)
    ELSE IF Len(sequence) + limit > 0 THEN SubSeq(sequence, 1, Len(sequence) + limit)
    ELSE <<>>

RECURSIVE CollectImages(_, _, _, _, _)
\* lines 138-142: get_image for each id; an exception of get_image ends it
CollectImages(cache, files, ids, i, images) ==
    IF i > Len(ids) THEN Returned(images)
    ELSE LET image == get_image(cache, files, ids[i], FALSE)
         IN  IF image.raised # "none" THEN Raised(image.raised)
             ELSE CollectImages(cache, files, ids, i + 1, images \o image.value)

\* storage.py lines 128-144
get_recent_images(cache, files, limit) ==
    CollectImages(cache, files, Slice(SortedFrom(cache, DOMAIN cache), limit), 1, <<>>)

\* what a tool handler answers: the records it lists, or an error text
Answered(value) == [raised |-> "none", value |-> value, error |-> "none"]
AnsweredError(exception) == [raised |-> "none", value |-> <<>>, error |-> exception]

\* imagyn_server.py lines 395-451 without an image_id: the limit goes to the
\* store as it came; any exception becomes an error text
_handle_get_history(cache, files, limit) ==
    LET recent_images == get_recent_images(cache, files, limit)
    IN  IF recent_images.raised # "none" THEN AnsweredError(recent_images.raised)
        ELSE Answered(recent_images.value)

Max(a, b) == IF a >= b THEN a ELSE b
Min(a, b) == IF a <= b THEN a ELSE b

\* fastmcp_server.py lines 276-305: the limit is clamped (line 278); line 288
\* calls isoformat() on created_at, a str, for every image listed
get_generation_history(cache, files, limit) ==
    LET images == get_recent_images(cache, files, Max(1, Min(50, limit)))
    IN  IF images.raised # "none" THEN AnsweredError(images.raised)
        ELSE IF images.value # <<>> THEN AnsweredError("AttributeError")
        ELSE Answered(<<>>)

\* the three ways to the recency listing
RecentVia(entry, cache, files, limit) ==
    IF entry = "storage" THEN get_recent_images(cache, files, limit)
    ELSE IF entry = "imagyn_server" THEN _handle_get_history(cache, files, limit)
    ELSE get_generation_history(cache, files, limit)

\* a recency listing, asked of the store or of one of the two servers
ListRecent(t, entry, limit) ==
    /\ stask[t].step = "idle"
    /\ stask' = [stask EXCEPT ![t] =
           [step |-> "idle", generated_image |-> <<>>, lookup |-> <<>>,
            got |-> RecentVia(entry, _metadata_cache, images_folder, limit),
            asked |-> Asked("recent", "", limit, entry),
            pending |-> <<>>]]
    /\ UNCHANGED <<_metadata_cache, metadata_file, images_folder, uuids, stored, heap,
                   clientVars, toolVars, callVars, serverVars>>

\* a bug: the whole index is dropped
DictDel_all(dict, key) == <<>>

\* del dict[key]
DictDel(dict, key) == [k \in DOMAIN dict \ {key} |-> dict[k]]

\* storage.py lines 155-160: the file of the record is removed if the record
\* names one that exists; a record without "file_path" raises KeyError inside
\* the try, which `except Exception: pass` drops
UnlinkFile(files, image_data) ==
    IF "file_path" \in DOMAIN image_data /\ image_data["file_path"] \in DOMAIN files
    THEN DictDel(files, image_data["file_path"])
    ELSE files

\* storage.py lines 146-163: False for an id not in the cache; else the file
\* removal, the entry's removal, and on to _save_metadata (line 164)
DeleteEntry(t, image_id) ==
    /\ stask[t].step = "idle"
    /\ IF image_id \notin DOMAIN _metadata_cache
       THEN /\ stask' = [stask EXCEPT ![t] =
                   [step |-> "idle", generated_image |-> <<>>, lookup |-> <<>>,
                    got |-> Returned(<<FALSE>>),
                    asked |-> Asked("delete", image_id, 0, "storage"),
                    pending |-> <<>>]]
            /\ UNCHANGED <<_metadata_cache, images_folder>>
       ELSE /\ images_folder' = UnlinkFile(images_folder, _metadata_cache[image_id])
            /\ _metadata_cache' = DictDel(_metadata_cache, image_id)
            /\ stask' = [stask EXCEPT ![t] =
                   [step |-> "save", generated_image |-> <<>>, lookup |-> <<>>,
                    got |-> <<>>,
                    asked |-> Asked("delete", image_id, 0, "storage"),
                    pending |-> <<TRUE>>]]
    /\ UNCHANGED <<metadata_file, uuids, stored, heap, clientVars, toolVars, callVars,
                   serverVars>>

\* round(total_size / (1024 * 1024), 2) of line 185, in hundredths of a MB:
\* Python rounds a half to the even neighbour
RoundMb(total_size) ==
    LET q == (total_size * 100) \div 1048576
        r == (total_size * 100) % 1048576
    IN  IF 2 * r > 1048576 \/ (2 * r = 1048576 /\ q % 2 = 1) THEN q + 1 ELSE q

RECURSIVE TotalSize(_, _, _)
\* storage.py lines 174-180: the loop over the records.  image_data["file_path"]
\* of a record without that key raises KeyError inside the try, which
\* `except Exception: pass` drops, and the record adds nothing
TotalSize(cache, files, ids) ==
    IF ids = {} THEN 0
    ELSE LET image_id == CHOOSE a \in ids : TRUE
             image_data == cache[image_id]
             size == IF "file_path" \in DOMAIN image_data
                        /\ image_data["file_path"] \in DOMAIN files
                     THEN Len(files[image_data["file_path"]])
                     ELSE 0
         IN  size + TotalSize(cache, files, ids \ {image_id})

\* storage.py lines 168-187, get_storage_stats
get_storage_stats(cache, files) ==
    LET total_images == Cardinality(DOMAIN cache)
        total_size == TotalSize(cache, files, DOMAIN cache)
    IN  [total_images |-> total_images,
         total_size_bytes |-> total_size,
         total_size_mb |-> RoundMb(total_size),
         output_folder |-> "output"]

\* a call of get_storage_stats
Stats(t) ==
    /\ stask[t].step = "idle"
    /\ stask' = [stask EXCEPT ![t] =
           [step |-> "idle", generated_image |-> <<>>, lookup |-> <<>>,
            got |-> Returned(<<get_storage_stats(_metadata_cache, images_folder)>>),
            asked |-> Asked("stats", "", 0, "storage"),
            pending |-> <<>>]]
    /\ UNCHANGED <<_metadata_cache, metadata_file, images_folder, uuids, stored, heap,
                   clientVars, toolVars, callVars, serverVars>>

\* lines 20-31 on an empty output folder
InitStoreOf(tasks) ==
    /\ _metadata_cache = <<>>
    /\ metadata_file = [state |-> "absent", content |-> <<>>]
    /\ images_folder = <<>>
    /\ stask = [t \in tasks |-> IdleTask]
    /\ uuids = 0
    /\ stored = <<>>

InitStore == InitStoreOf(StoreTasks)

-----------------------------------------------------------------------------
(* ComfyUIClient: the client id, the liveness probe and the catalog query *)

\* str(uuid.uuid4()) of line 23, and another such value
ClientIds == <<"k1", "k2">>

\* lines 44-47: the body of POST /prompt
ComfyUIWorkflowRequest(prompt) == [client_id |-> client_id, prompt |-> prompt]

\* a bug: a client id of its own for every subscription
ws_url_freshId == <<"/ws?clientId=", ClientIds[2]>>

\* line 60: the address of the websocket
ws_url == <<"/ws?clientId=", client_id>>

\* what a request carried
Carried(request, id) == [request |-> request, client_id |-> id]

\* an HTTP exchange: the transport fails with an exception of httpx, or the
\* server answers with a status and a body that is JSON or is not
Answer(status, json) ==
    [transport |-> "ok", status |-> status, parses |-> TRUE, json |-> json]
NotJson(status) ==
    [transport |-> "ok", status |-> status, parses |-> FALSE, json |-> <<>>]
TransportFailure(exception) ==
    [transport |-> exception, status |-> 0, parses |-> FALSE, json |-> <<>>]

\* JSON values as Python holds them, with their type
JDict(d) == [t |-> "dict", v |-> d]
JList(l) == [t |-> "list", v |-> l]
JStr(x)  == [t |-> "str", v |-> x]
JInt(n)  == [t |-> "int", v |-> n]
JNull    == [t |-> "NoneType", v |-> <<>>]

\* dict.get(key, {}) of lines 246-248
JGet(d, key) == IF key \in DOMAIN d.v THEN d.v[key] ELSE JDict(<<>>)

\* response.raise_for_status(): any status outside 2xx raises
IsSuccess(status) == status >= 200 /\ status < 300

\* what GET /system_stats may come to
SystemStatsAnswers ==
    << NotJson(200), NotJson(204), NotJson(301), NotJson(404), NotJson(500),
       TransportFailure("ConnectError"), TransportFailure("ReadTimeout") >>

\* a bug: no try/except around the request
check_connection_raises(response) ==
    IF response.transport # "ok" THEN Raised(response.transport)
    ELSE Returned(<<response.status = 200>>)

\* lines 34-40, check_connection
check_connection(response) ==
    IF response.transport # "ok" THEN Returned(<<FALSE>>)
    ELSE Returned(<<response.status = 200>>)

RECURSIVE Replace(_, _)
\* str.replace(old, ''), of line 259
Replace(str, old) ==
    IF Len(str) < Len(old) THEN str
    ELSE IF SubSeq(str, 1, Len(old)) = old
    THEN Replace(SubSeq(str, Len(old) + 1, Len(str)), old)
    ELSE <<str[1]>> \o Replace(Tail(str), old)

Ext_ckpt == <<".","c","k","p","t">>

\* lines 260-265
LoRAInfo(lora_name) ==
    [name |-> Replace(Replace(lora_name, Ext_safetensors), Ext_ckpt),
     file_path |-> lora_name]

\* the /object_info body of a server whose LoraLoader lists these options
ObjectInfoOf(lora_options) ==
    JDict("LoraLoader" :> JDict("input" :> JDict("required" :>
        JDict("lora_name" :> lora_options))))

Names(available_lora_names) ==
    JList([i \in 1..Len(available_lora_names) |-> JStr(available_lora_names[i])])

\* the answer of a server that lists these LoRA files
CatalogAnswer(available_lora_names) ==
    Answer(200, ObjectInfoOf(JList(<<Names(available_lora_names), JDict(<<>>)>>)))

\* answers that are failures or are not of the documented shape
BadObjectInfoAnswers ==
    << TransportFailure("ConnectError"),
       Answer(500, JDict(<<>>)),
       NotJson(404),
       NotJson(200),
       Answer(200, JList(<<>>)),
       Answer(200, JNull),
       Answer(200, JDict(<<>>)),
       Answer(200, JDict("LoraLoader" :> JNull)),
       Answer(200, JDict("LoraLoader" :> JDict("input" :> JList(<<>>)))),
       Answer(200, JDict("LoraLoader" :> JDict("input" :> JDict("required" :> JNull)))),
       Answer(200, ObjectInfoOf(JStr(<<"x">>))),
       Answer(200, ObjectInfoOf(JList(<<>>))),
       Answer(200, ObjectInfoOf(JList(<<JStr(<<"x">>)>>))),
       Answer(200, ObjectInfoOf(JList(<<JList(<<JStr(L_a), JInt(7)>>)>>))),
       Answer(301, JDict(<<>>)) >>

\* a bug: the exception handler is missing, a failure goes to the caller
_get_available_loras_from_server_raises(response) ==
    IF response.transport # "ok" THEN Raised(response.transport)
    ELSE IF ~IsSuccess(response.status) THEN Raised("HTTPStatusError")
    ELSE IF ~response.parses THEN Raised("JSONDecodeError")
    ELSE Raised("AttributeError")

\* lines 233-273, _get_available_loras_from_server: every exception of the
\* request, of raise_for_status, of response.json() or of the walk through
\* the body is caught at line 270 and [] is returned
_get_available_loras_from_server(response) ==
    IF response.transport # "ok" \/ ~IsSuccess(response.status) \/ ~response.parses
    THEN Returned(<<(<<>>)>>)
    ELSE LET info == response.json
         IN  IF info.t # "dict" THEN Returned(<<(<<>>)>>)
             ELSE LET lora_loader_info == JGet(info, "LoraLoader")
             IN  IF lora_loader_info.t # "dict" THEN Returned(<<(<<>>)>>)
             ELSE LET input_info == JGet(lora_loader_info, "input")
             IN  IF input_info.t # "dict" THEN Returned(<<(<<>>)>>)
             ELSE LET required_inputs == JGet(input_info, "required")
             IN  IF required_inputs.t # "dict" THEN Returned(<<(<<>>)>>)
             ELSE IF "lora_name" \notin DOMAIN required_inputs.v THEN Returned(<<(<<>>)>>)
             ELSE LET lora_options == required_inputs.v["lora_name"]
             IN  IF lora_options.t # "list" \/ Len(lora_options.v) = 0 THEN Returned(<<(<<>>)>>)
             ELSE LET available_loras == lora_options.v[1]
             IN  IF available_loras.t # "list" THEN Returned(<<(<<>>)>>)
             ELSE IF \E i \in 1..Len(available_loras.v) : available_loras.v[i].t # "str"
             THEN Returned(<<(<<>>)>>)
             ELSE Returned(<<[i \in 1..Len(available_loras.v) |->
                                 LoRAInfo(available_loras.v[i].v)]>>)

\* line 200: [lora.file_path for lora in available_loras]
FilePaths(available_loras) ==
    [i \in 1..Len(available_loras) |-> available_loras[i].file_path]

-----------------------------------------------------------------------------
(* generate_image, lines 289-305: the patch of the copy *)

\* a bug: workflow = workflow_template, no copy
workflow_object_alias(c, workflow_template) == workflow_template

\* line 289: the object the local `workflow` names after
\* json.loads(json.dumps(workflow_template)): a new one, the call's own
workflow_object(c, workflow_template) == c

\* Cooperative scheduling: lines 289-302 hold no await, so nothing else runs
\* while a call is between them.
Quiet(c) == \A d \in Calls \ {c} : pc[d] \notin {"prompt", "seed", "dims"}

NobodyPatching == \A d \in Calls : pc[d] \notin {"prompt", "seed", "dims"}

\* Some call has still to submit or is waiting: only then can what the server
\* and the clock do make a difference to a call.
Watching ==
    /\ NobodyPatching
    /\ \E c \in Calls : pc[c] \in {"call", "loras", "queue", "connect", "loop", "recv"}

\* lines 289-293: the copy and the seed
PatchClone(c) ==
    /\ pc[c] = "call"
    /\ Quiet(c)
    /\ workflow' = [workflow EXCEPT ![c] = workflow_object(c, TemplateObj)]
    /\ heap' = [heap EXCEPT ![workflow'[c]] = JsonClone(heap[TemplateObj])]
    /\ seed' = [seed EXCEPT ![c] = <<ResolveSeed(req[c].seed, UnixTime)>>]
    /\ pc' = [pc EXCEPT ![c] = "prompt"]
    /\ UNCHANGED <<storeVars, clientVars, toolVars, req, roles, prompt_id, start_time,
                   recv_start, error,
                   closed_seen, history, image_info, result, sent, serverVars>>

\* line 296
PatchPrompt(c) ==
    /\ pc[c] = "prompt"
    /\ heap' = [heap EXCEPT ![workflow[c]] =
                  _apply_prompt_to_workflow(@, req[c].prompt, req[c].negative_prompt)]
    /\ roles' = [roles EXCEPT ![c] = ClipRoles(heap[workflow[c]])]
    /\ pc' = [pc EXCEPT ![c] = "seed"]
    /\ UNCHANGED <<storeVars, clientVars, toolVars, req, workflow, seed, prompt_id,
                   start_time, recv_start, error,
                   closed_seen, history, image_info, result, sent, serverVars>>

\* line 299
PatchSeed(c) ==
    /\ pc[c] = "seed"
    /\ heap' = [heap EXCEPT ![workflow[c]] = _apply_seed_to_workflow(@, seed[c][1])]
    /\ pc' = [pc EXCEPT ![c] = "dims"]
    /\ UNCHANGED <<storeVars, clientVars, toolVars, req, workflow, roles, seed, prompt_id,
                   start_time, recv_start, error,
                   closed_seen, history, image_info, result, sent, serverVars>>

\* line 302
PatchDims(c) ==
    /\ pc[c] = "dims"
    /\ heap' = [heap EXCEPT ![workflow[c]] =
                  _apply_dimensions_to_workflow(@, req[c].width, req[c].height)]
    /\ pc' = [pc EXCEPT ![c] = "loras"]
    /\ UNCHANGED <<storeVars, clientVars, toolVars, req, workflow, roles, seed, prompt_id,
                   start_time, recv_start, error,
                   closed_seen, history, image_info, result, sent, serverVars>>

\* lines 187-199: does _apply_loras_to_workflow get as far as the query?
QueriesCatalog(wf, loras, enable_loras) ==
    /\ enable_loras
    /\ Len(loras) > 0
    /\ Len(_find_nodes_by_class_type(wf, "LoraLoader")) > 0

\* line 305, an await: _apply_loras_to_workflow with the catalog query of
\* line 199, which gives what the server lists, or [] when anything fails
\* (lines 270-273)
PatchLoras(c) ==
    /\ pc[c] = "loras"
    /\ Quiet(c)
    /\ LET queries == QueriesCatalog(heap[workflow[c]], req[c].loras, req[c].enable_loras)
           available_loras == IF queries THEN _get_available_loras_from_server(object_info)
                              ELSE Returned(<<(<<>>)>>)
       IN  /\ sent' = [sent EXCEPT ![c] =
                         IF queries THEN Append(@, "GET /object_info") ELSE @]
           /\ IF available_loras.raised # "none"
              THEN /\ pc' = [pc EXCEPT ![c] = "failed"]
                   /\ error' = [error EXCEPT ![c] = available_loras.raised]
                   /\ UNCHANGED heap
              ELSE /\ heap' = [heap EXCEPT ![workflow[c]] =
                                 _apply_loras_to_workflow(@, req[c].loras,
                                     req[c].enable_loras,
                                     FilePaths(available_loras.value[1]))]
                   /\ pc' = [pc EXCEPT ![c] = "queue"]
                   /\ UNCHANGED error
    /\ UNCHANGED <<storeVars, clientVars, toolVars, req, workflow, roles, seed, prompt_id,
                   start_time, recv_start, closed_seen, history, image_info, result,
                   serverVars>>

\* what every call starts from
InitCallsOf(tasks) ==
    /\ InitStoreOf(tasks)
    /\ workflow = [c \in Calls |-> None]
    /\ roles = [c \in Calls |-> NoRoles]
    /\ seed = [c \in Calls |-> <<>>]
    /\ prompt_id = [c \in Calls |-> None]
    /\ start_time = [c \in Calls |-> 0]
    /\ recv_start = [c \in Calls |-> 0]
    /\ error = [c \in Calls |-> "none"]
    /\ closed_seen = [c \in Calls |-> FALSE]
    /\ history = [c \in Calls |-> <<>>]
    /\ image_info = [c \in Calls |-> <<>>]
    /\ result = [c \in Calls |-> <<>>]
    /\ sent = [c \in Calls |-> <<>>]
    /\ now = 0
    /\ jobs = <<>>
    /\ socket = [c \in Calls |-> "none"]
    /\ inbox = [c \in Calls |-> <<>>]
    /\ emitted = 0
    /\ client_id = ClientIds[1]
    /\ carried = <<>>
    /\ probe = <<>>
    /\ config = <<>>

InitCalls == InitCallsOf(StoreTasks)

\* The patcher alone: one call, c1, patches a template step by step; every
\* template and request of the bounded sets is tried.
InitPatch ==
    /\ InitCalls
    /\ \E t \in Templates : heap = [o \in {TemplateObj} \cup Calls |->
                                      IF o = TemplateObj THEN t ELSE <<>>]
    /\ \E sc \in SeedCases, lc \in LoraCases, p \in Prompts, n \in NegativePrompts :
        /\ req = [c \in Calls |-> Request(p, n, sc, lc)]
        /\ epochHi = sc[2].hi
        /\ catalog = lc[3]
        /\ \/ object_info = CatalogAnswer(lc[3])
           \/ /\ lc[1] = <<(<<"b">>)>> /\ lc[2] /\ lc[3] = <<L_a, L_b>>
              /\ object_info = BadObjectInfoAnswers[1]
    /\ websocket_timeout = 30
    /\ pc = [c \in Calls |-> IF c = "c1" THEN "call" ELSE "idle"]

NextPatch ==
    \/ PatchClone("c1")
    \/ PatchPrompt("c1")
    \/ PatchSeed("c1")
    \/ PatchDims("c1")
    \/ PatchLoras("c1")

SpecPatch == InitPatch /\ [][NextPatch]_vars

-----------------------------------------------------------------------------
(* generate_image, lines 307-350, and wait_for_completion: the job *)

\* wait_for_completion's `timeout: int = 300`, which line 313 leaves at its default
timeout == 300

\* the clock moves in steps of TickUnit seconds, up to MaxTime
TickUnit == 100
MaxTime == 400

\* the server pushes at most MaxEvents events that are not terminal
MaxEvents == 1

\* a websocket holds at most MaxInbox unread events
MaxInbox == 1

\* other calls of the same ComfyUIClient submit at most MaxOtherJobs jobs
MaxOtherJobs == 1

\* the ids the server gives to the jobs, in the order of their submission
JobIds == <<"p1", "p2", "p3", "p4">>

\* the events of the websocket: {"type": ..., "data": {"node": ..., "prompt_id": ...}}
Terminal(j)  == [type |-> "executing", node |-> None, prompt_id |-> j]
NodeEvent(j) == [type |-> "executing", node |-> "3", prompt_id |-> j]
Progress(j)  == [type |-> "progress", node |-> None, prompt_id |-> j]

\* a bug: the prompt_id of the message is not compared
IsCompletion_anyJob(data, pid) ==
    /\ data.type = "executing"
    /\ data.node = None

\* lines 70-72: is this the message that ends the wait for prompt_id?
IsCompletion(data, pid) ==
    /\ data.type = "executing"
    /\ data.node = None
    /\ data.prompt_id = pid

Img1 == [filename |-> "img_1.png", subfolder |-> "", type |-> "output"]
Img2 == [filename |-> "img_2.png", subfolder |-> "sub", type |-> "temp"]

\* what GET /history/{prompt_id} may hold for a finished job, as get_history
\* returns it (line 89): the outputs per node, in the record's order; the
\* last one is the {} returned when the server has no record of the prompt_id
HistoryRecords ==
    { [outputs |-> << [node |-> "9", out |-> [images |-> <<Img1, Img2>>]] >>],
      [outputs |-> << [node |-> "7", out |-> [text |-> "x"]],
                      [node |-> "9", out |-> [images |-> <<Img2>>]] >>],
      [outputs |-> << [node |-> "7", out |-> [images |-> <<>>]],
                      [node |-> "9", out |-> [images |-> <<Img1>>]] >>],
      [outputs |-> << [node |-> "7", out |-> [images |-> <<Img2, Img1>>]],
                      [node |-> "9", out |-> [images |-> <<Img1>>]] >>],
      [outputs |-> <<>>],
      <<>> }

RECURSIVE FirstImages_noBreak(_, _)
\* a bug: the loop has no `break`, the last node output with "images" wins
FirstImages_noBreak(outputs, i) ==
    IF i > Len(outputs) THEN <<>>
    ELSE LET later == FirstImages_noBreak(outputs, i + 1)
         IN  IF later # <<>> THEN later
             ELSE IF "images" \in DOMAIN outputs[i].out THEN <<outputs[i].out.images>>
             ELSE <<>>

\* lines 322-325: the images of the first node output that has an "images"
\* key, as an Optional (None: no such node)
RECURSIVE FirstImages(_, _)
FirstImages(outputs, i) ==
    IF i > Len(outputs) THEN <<>>
    ELSE IF "images" \in DOMAIN outputs[i].out THEN <<outputs[i].out.images>>
    ELSE FirstImages(outputs, i + 1)

\* `not save_image_outputs`: None or an empty list
NoImageOutput(save_image_outputs) ==
    save_image_outputs = <<>> \/ save_image_outputs[1] = <<>>

ImageBytes == <<137, 80, 78, 71>>

\* lines 339-348 (generation_time, a float no claim reads, is left out)
Metadata(c) ==
    [prompt |-> req[c].prompt, negative_prompt |-> req[c].negative_prompt,
     loras_used |-> req[c].loras, seed |-> seed[c][1],
     width |-> req[c].width, height |-> req[c].height, steps |-> 20,
     cfg |-> "3.5", workflow_used |-> "txt2img_flux"]

Fail(c, exception) ==
    /\ pc' = [pc EXCEPT ![c] = "failed"]
    /\ error' = [error EXCEPT ![c] = exception]

\* a bug: a failed submission is tried once more
QueuePrompt_retry(c) ==
    /\ pc[c] = "queue"
    /\ Quiet(c)
    /\ carried' = Append(carried, Carried("POST /prompt",
                                           ComfyUIWorkflowRequest(heap[workflow[c]]).client_id))
    /\ sent' = [sent EXCEPT ![c] = Append(@, "POST /prompt")]
    /\ \/ /\ Len(jobs) < Len(JobIds)
          /\ jobs' = Append(jobs, "queued")
          /\ prompt_id' = [prompt_id EXCEPT ![c] = JobIds[Len(jobs) + 1]]
          /\ pc' = [pc EXCEPT ![c] = "connect"]
          /\ UNCHANGED error
       \/ /\ IF Len(sent[c]) < 2 THEN UNCHANGED <<pc, error>>
             ELSE Fail(c, "HTTPStatusError")
          /\ UNCHANGED <<jobs, prompt_id>>
    /\ UNCHANGED <<storeVars, client_id, toolVars, heap, req, workflow, roles, seed,
                   start_time, recv_start,
                   closed_seen, history, image_info, result,
                   now, epochHi, catalog, socket, inbox, emitted, websocket_timeout>>

\* line 310, queue_prompt: POST /prompt; the server answers with a new
\* prompt_id, or with an error status (raise_for_status, line 53)
QueuePrompt(c) ==
    /\ pc[c] = "queue"
    /\ Quiet(c)
    /\ carried' = Append(carried, Carried("POST /prompt",
                                           ComfyUIWorkflowRequest(heap[workflow[c]]).client_id))
    /\ sent' = [sent EXCEPT ![c] = Append(@, "POST /prompt")]
    /\ \/ /\ Len(jobs) < Len(JobIds)
          /\ jobs' = Append(jobs, "queued")
          /\ prompt_id' = [prompt_id EXCEPT ![c] = JobIds[Len(jobs) + 1]]
          /\ pc' = [pc EXCEPT ![c] = "connect"]
          /\ UNCHANGED error
       \/ /\ Fail(c, "HTTPStatusError")
          /\ UNCHANGED <<jobs, prompt_id>>
    /\ UNCHANGED <<storeVars, client_id, toolVars, heap, req, workflow, roles, seed,
                   start_time, recv_start,
                   closed_seen, history, image_info, result,
                   now, epochHi, catalog, socket, inbox, emitted, websocket_timeout>>

\* lines 60-64: start_time, and the websocket of this client_id is opened
Connect(c) ==
    /\ pc[c] = "connect"
    /\ Quiet(c)
    /\ carried' = Append(carried, Carried("WS /ws", ws_url[2]))
    /\ start_time' = [start_time EXCEPT ![c] = now]
    /\ sent' = [sent EXCEPT ![c] = Append(@, "WS /ws")]
    /\ socket' = [socket EXCEPT ![c] = "open"]
    /\ pc' = [pc EXCEPT ![c] = "loop"]
    /\ UNCHANGED <<storeVars, client_id, toolVars, heap, req, workflow, roles, seed,
                   prompt_id, recv_start, error,
                   closed_seen, history, image_info, result,
                   now, epochHi, catalog, jobs, inbox, emitted, websocket_timeout>>

\* a bug: the per-receive timeout taken for the overall one
WithinTimeout_perReceive(c) == now - start_time[c] < websocket_timeout

\* line 65: time.time() - start_time < timeout
WithinTimeout(c) == now - start_time[c] < timeout

\* line 65, the loop condition; when it fails, line 81 raises TimeoutError
LoopCheck(c) ==
    /\ pc[c] = "loop"
    /\ Quiet(c)
    /\ IF WithinTimeout(c)
       THEN /\ pc' = [pc EXCEPT ![c] = "recv"]
            /\ recv_start' = [recv_start EXCEPT ![c] = now]
            /\ UNCHANGED <<error, socket>>
       ELSE /\ Fail(c, "TimeoutError")
            /\ socket' = [socket EXCEPT ![c] = "closed"]
            /\ UNCHANGED recv_start
    /\ UNCHANGED <<storeVars, clientVars, toolVars, heap, req, workflow, roles, seed,
                   prompt_id, start_time,
                   closed_seen, history, image_info, result, sent,
                   now, epochHi, catalog, jobs, inbox, emitted, websocket_timeout>>

\* lines 67-74: recv() gives a message; the completion message of this
\* prompt_id ends the wait, any other message goes round the loop
RecvMessage(c) ==
    /\ pc[c] = "recv"
    /\ Quiet(c)
    /\ inbox[c] # <<>>
    /\ inbox' = [inbox EXCEPT ![c] = Tail(@)]
    /\ pc' = [pc EXCEPT ![c] =
                IF IsCompletion(Head(inbox[c]), prompt_id[c]) THEN "history" ELSE "loop"]
    /\ UNCHANGED <<storeVars, clientVars, toolVars, heap, req, workflow, roles, seed,
                   prompt_id, start_time, recv_start,
                   error, closed_seen, history, image_info, result, sent,
                   now, epochHi, catalog, jobs, socket, emitted, websocket_timeout>>

\* lines 76-77: asyncio.TimeoutError after websocket_timeout without a message
RecvTimeout(c) ==
    /\ pc[c] = "recv"
    /\ Quiet(c)
    /\ inbox[c] = <<>>
    /\ socket[c] = "open"
    /\ now - recv_start[c] >= websocket_timeout
    /\ pc' = [pc EXCEPT ![c] = "loop"]
    /\ UNCHANGED <<storeVars, clientVars, toolVars, heap, req, workflow, roles, seed,
                   prompt_id, start_time, recv_start,
                   error, closed_seen, history, image_info, result, sent, serverVars>>

\* a bug: after ConnectionClosed the history is fetched all the same
RecvClosed_thenHistory(c) ==
    /\ pc[c] = "recv"
    /\ Quiet(c)
    /\ inbox[c] = <<>>
    /\ socket[c] = "closed"
    /\ closed_seen' = [closed_seen EXCEPT ![c] = TRUE]
    /\ pc' = [pc EXCEPT ![c] = "history"]
    /\ UNCHANGED <<storeVars, clientVars, toolVars, heap, req, workflow, roles, seed,
                   prompt_id, start_time, recv_start,
                   error, history, image_info, result, sent, serverVars>>

\* lines 78-81: ConnectionClosed breaks the loop, and line 81 raises TimeoutError
RecvClosed(c) ==
    /\ pc[c] = "recv"
    /\ Quiet(c)
    /\ inbox[c] = <<>>
    /\ socket[c] = "closed"
    /\ closed_seen' = [closed_seen EXCEPT ![c] = TRUE]
    /\ Fail(c, "TimeoutError")
    /\ UNCHANGED <<storeVars, clientVars, toolVars, heap, req, workflow, roles, seed,
                   prompt_id, start_time, recv_start,
                   history, image_info, result, sent, serverVars>>

\* line 74, get_history: GET /history/{prompt_id}; leaving the `async with`
\* closes the websocket
GetHistory(c) ==
    /\ pc[c] = "history"
    /\ Quiet(c)
    /\ sent' = [sent EXCEPT ![c] = Append(@, "GET /history")]
    /\ socket' = [socket EXCEPT ![c] = "closed"]
    /\ \/ \E h \in HistoryRecords :
             /\ history' = [history EXCEPT ![c] = <<h>>]
             /\ pc' = [pc EXCEPT ![c] = "extract"]
             /\ UNCHANGED error
       \/ /\ Fail(c, "HTTPStatusError")
          /\ UNCHANGED history
    /\ UNCHANGED <<storeVars, clientVars, toolVars, heap, req, workflow, roles, seed,
                   prompt_id, start_time, recv_start,
                   closed_seen, image_info, result,
                   now, epochHi, catalog, jobs, inbox, emitted, websocket_timeout>>

\* lines 317-331: history.get("outputs", {}), the scan, the first image; no
\* await in here
Extract(c) ==
    /\ pc[c] = "extract"
    /\ Quiet(c)
    /\ LET outputs == DictGet(history[c][1], "outputs", <<>>)
           save_image_outputs == FirstImages(outputs, 1)
       IN  IF NoImageOutput(save_image_outputs)
           THEN /\ Fail(c, "RuntimeError")
                /\ UNCHANGED image_info
           ELSE /\ image_info' = [image_info EXCEPT ![c] = <<save_image_outputs[1][1]>>]
                /\ pc' = [pc EXCEPT ![c] = "download"]
                /\ UNCHANGED error
    /\ UNCHANGED <<storeVars, clientVars, toolVars, heap, req, workflow, roles, seed,
                   prompt_id, start_time, recv_start,
                   closed_seen, history, result, sent, serverVars>>

\* lines 332-350, get_image: GET /view, then the metadata and the return
Download(c) ==
    /\ pc[c] = "download"
    /\ Quiet(c)
    /\ sent' = [sent EXCEPT ![c] = Append(@, "GET /view")]
    /\ \/ /\ result' = [result EXCEPT ![c] =
                          <<[image_data |-> ImageBytes, metadata |-> Metadata(c)]>>]
          /\ pc' = [pc EXCEPT ![c] = "done"]
          /\ UNCHANGED error
       \/ /\ Fail(c, "HTTPStatusError")
          /\ UNCHANGED result
    /\ UNCHANGED <<storeVars, clientVars, toolVars, heap, req, workflow, roles, seed,
                   prompt_id, start_time, recv_start,
                   closed_seen, history, image_info, serverVars>>

\* The server pushes an event of job k to every websocket that is open: all
\* the calls connect with the one client_id of their ComfyUIClient.
Push(e) ==
    /\ \A c \in Calls : socket[c] = "open" => Len(inbox[c]) < MaxInbox
    /\ inbox' = [c \in Calls |->
                   IF socket[c] = "open" THEN Append(inbox[c], e) ELSE inbox[c]]

ServerEvent(k) ==
    /\ Watching
    /\ k \in 1..Len(jobs)
    /\ jobs[k] = "queued"
    /\ emitted < MaxEvents
    /\ emitted' = emitted + 1
    /\ \E e \in {NodeEvent(JobIds[k]), Progress(JobIds[k])} : Push(e)
    /\ UNCHANGED <<storeVars, clientVars, toolVars, heap, callVars, now, epochHi, catalog,
                   jobs, socket, websocket_timeout>>

\* the job ends: the server pushes its completion message
ServerFinish(k) ==
    /\ Watching
    /\ k \in 1..Len(jobs)
    /\ jobs[k] = "queued"
    /\ jobs' = [jobs EXCEPT ![k] = "finished"]
    /\ Push(Terminal(JobIds[k]))
    /\ UNCHANGED <<storeVars, clientVars, toolVars, heap, callVars, now, epochHi, catalog,
                   socket, emitted, websocket_timeout>>

\* another generate_image call of the same client submits its job
OtherSubmit ==
    /\ Watching
    /\ Len(jobs) < Len(JobIds) - 1
    /\ Cardinality({k \in 1..Len(jobs) : \A c \in Calls : prompt_id[c] # JobIds[k]})
          < MaxOtherJobs
    /\ jobs' = Append(jobs, "queued")
    /\ carried' = Append(carried, Carried("POST /prompt",
                                           ComfyUIWorkflowRequest(<<>>).client_id))
    /\ UNCHANGED <<storeVars, client_id, toolVars, heap, callVars, now, epochHi, catalog,
                   socket, inbox, emitted,
                   websocket_timeout>>

\* the connection of a call's websocket drops
SocketDrop(c) ==
    /\ Watching
    /\ socket[c] = "open"
    /\ pc[c] \in {"loop", "recv"}
    /\ socket' = [socket EXCEPT ![c] = "closed"]
    /\ UNCHANGED <<storeVars, clientVars, toolVars, heap, callVars, now, epochHi, catalog,
                   jobs, inbox, emitted,
                   websocket_timeout>>

\* time passes while some call waits for a message
Tick ==
    /\ Watching
    /\ \E c \in Calls : pc[c] = "recv"
    /\ now < MaxTime
    /\ now' = now + TickUnit
    /\ UNCHANGED <<storeVars, clientVars, toolVars, heap, callVars, epochHi, catalog, jobs,
                   socket, inbox, emitted,
                   websocket_timeout>>

\* the (template, request) pairs of the followed call: the scenario of the
\* specification's section 8 with an unset seed and an adapter, and a template
\* of a single text encoder with a caller's seed and no adapter
SpecCases ==
    { << BuildTemplate(<<T_dog, T_ugly>>, RestNodes),
         Request(P_cat, N_fog, <<(<<>>), [hi |-> 26889, lo |-> 0]>>,
                 << <<(<<"b">>)>>, TRUE >>) >>,
      << BuildTemplate(<<T_ugly>>, <<>>),
         Request(P_cat, <<>>, << <<[hi |-> 0, lo |-> 0]>>, [hi |-> 26889, lo |-> 0]>>,
                 << (<<>>), TRUE >>) >> }

Init ==
    /\ InitCalls
    /\ \E case \in SpecCases :
          /\ heap = [o \in {TemplateObj} \cup Calls |->
                       IF o = TemplateObj THEN case[1] ELSE <<>>]
          /\ req = [c \in Calls |-> case[2]]
          /\ \/ object_info = CatalogAnswer(<<L_a, L_b>>)
             \/ case[2].loras # <<>> /\ object_info = BadObjectInfoAnswers[1]
    /\ epochHi = 26889
    /\ catalog = <<L_a, L_b>>
    /\ websocket_timeout \in WebsocketTimeouts
    /\ pc = [c \in Calls |-> "call"]

CallStep(c) ==
    \/ PatchClone(c)
    \/ PatchPrompt(c)
    \/ PatchSeed(c)
    \/ PatchDims(c)
    \/ PatchLoras(c)
    \/ QueuePrompt(c)
    \/ Connect(c)
    \/ LoopCheck(c)
    \/ RecvMessage(c)
    \/ RecvTimeout(c)
    \/ RecvClosed(c)
    \/ GetHistory(c)
    \/ Extract(c)
    \/ Download(c)

Next ==
    \/ \E c \in Calls : CallStep(c)
    \/ \E k \in 1..Len(JobIds) : ServerEvent(k)
    \/ \E k \in 1..Len(JobIds) : ServerFinish(k)
    \/ OtherSubmit
    \/ \E c \in Calls : SocketDrop(c)
    \/ Tick

Spec == Init /\ [][Next]_vars

\* lines 65-79: the steps of the loop of wait_for_completion
WaitStep(c) ==
    \/ LoopCheck(c)
    \/ RecvMessage(c)
    \/ RecvTimeout(c)
    \/ RecvClosed(c)

\* The event loop resumes a waiting call whose receive has ended, and time
\* passes; nothing assures that the server ever pushes an event.
SpecFair ==
    /\ Spec
    /\ \A c \in Calls : WF_vars(WaitStep(c))
    /\ WF_vars(Tick)

\* The job's state in the words of the specification, read off the call:
\* submitted once queue_prompt has returned, waiting while in the loop of
\* wait_for_completion, completed once the completion message was received,
\* timed out once TimeoutError was raised.  No exception of the code stands
\* for a lost connection.
JobState(c) ==
    IF prompt_id[c] = None THEN "NotSubmitted"
    ELSE IF pc[c] = "connect" THEN "Submitted"
    ELSE IF pc[c] \in {"loop", "recv"} THEN "Waiting"
    ELSE IF error[c] = "TimeoutError" THEN "TimedOut"
    ELSE "Completed"

\* the server's index of the call's job
OwnJob(c) == CHOOSE k \in 1..Len(JobIds) : JobIds[k] = prompt_id[c]

\* the largest uint32
U32Max == [hi |-> Half - 1, lo |-> Half - 1]

\* The whole call for every seed case: unset seeds with the clock below and
\* above 2^32, and the caller's seeds 0 and 2^32 - 1, on a template with
\* samplers.
InitSeed ==
    /\ InitCalls
    /\ heap = [o \in {TemplateObj} \cup Calls |->
                 IF o = TemplateObj THEN BuildTemplate(<<T_dog, T_ugly>>, RestNodes)
                 ELSE <<>>]
    /\ \E sc \in SeedCases \cup { << <<U32Max>>, [hi |-> 26889, lo |-> 0] >> } :
          /\ req = [c \in Calls |-> Request(P_cat, N_fog, sc, <<(<<>>), TRUE>>)]
          /\ epochHi = sc[2].hi
    /\ catalog = <<L_a, L_b>>
    /\ object_info = CatalogAnswer(<<L_a, L_b>>)
    /\ websocket_timeout = 30
    /\ pc = [c \in Calls |-> "call"]

SpecSeed == InitSeed /\ [][Next]_vars

\* The whole call with an adapter asked of a template that has adapter
\* loaders, for every answer GET /object_info may come to: each failure and
\* each malformed body, and a server that lists its files.
InitCatalog ==
    /\ InitCalls
    /\ heap = [o \in {TemplateObj} \cup Calls |->
                 IF o = TemplateObj THEN BuildTemplate(<<T_dog, T_ugly>>, RestNodes)
                 ELSE <<>>]
    /\ req = [c \in Calls |->
                Request(P_cat, N_fog, << <<[hi |-> 0, lo |-> 0]>>, [hi |-> 26889, lo |-> 0]>>,
                        << <<(<<"b">>)>>, TRUE >>)]
    /\ epochHi = 26889
    /\ catalog = <<L_a, L_b>>
    /\ \/ object_info = CatalogAnswer(<<L_a, L_b>>)
       \/ \E i \in 1..Len(BadObjectInfoAnswers) : object_info = BadObjectInfoAnswers[i]
    /\ websocket_timeout = 30
    /\ pc = [c \in Calls |-> "call"]

\* the call as far as its submission, beside another call's submissions
NextCatalog ==
    \/ PatchClone("c1")
    \/ PatchPrompt("c1")
    \/ PatchSeed("c1")
    \/ PatchDims("c1")
    \/ PatchLoras("c1")
    \/ QueuePrompt("c1")
    \/ OtherSubmit

SpecCatalog == InitCatalog /\ [][NextCatalog]_vars

-----------------------------------------------------------------------------
(* The server process: ImagynConfig.load_from_file (models.py), then the
   generate_image tool of imagyn_server.py, which probes the server before
   it calls ComfyUIClient.generate_image *)

\* the fields of the dataclass ImagynConfig (models.py lines 23-34), the two
\* without a default, and the defaults of the others
ConfigFields ==
    {"provider", "output_folder", "max_concurrent_generations",
     "default_generation_timeout", "http_timeout", "websocket_timeout",
     "comfyui_url", "workflow_file", "enable_loras", "replicate"}

ConfigRequired == {"provider", "output_folder"}

ConfigDefaults ==
    [max_concurrent_generations |-> 3, default_generation_timeout |-> 300,
     http_timeout |-> 60, websocket_timeout |-> 30, comfyui_url |-> None,
     workflow_file |-> None, enable_loras |-> None, replicate |-> None]

\* cls(**config_data), line 68: TypeError for a key that is no field and for
\* a missing field that has no default
ImagynConfig(config_data) ==
    IF DOMAIN config_data \ ConfigFields # {} \/ ConfigRequired \ DOMAIN config_data # {}
    THEN Raised("TypeError")
    ELSE Returned(<<[k \in ConfigFields |->
                       IF k \in DOMAIN config_data THEN config_data[k]
                       ELSE ConfigDefaults[k]]>>)

\* ReplicateConfig(**replicate_data), line 51 (models.py lines 13-17)
ReplicateConfig(replicate_data) ==
    IF {"api_key", "model_id"} \ DOMAIN replicate_data # {}
       \/ DOMAIN replicate_data \ {"api_key", "model_id", "default_speed_mode"} # {}
    THEN Raised("TypeError")
    ELSE Returned(<<[k \in {"api_key", "model_id", "default_speed_mode"} |->
                       IF k \in DOMAIN replicate_data THEN replicate_data[k]
                       ELSE "Extra Juiced"]>>)

\* `config_data.get(key)` is truthy: the key is there with a non-empty string
Truthy(config_data, key) == key \in DOMAIN config_data /\ config_data[key] # ""

\* line 46: config_data.pop('lora_folder_path', None)
PopLoraFolderPath(config_data) == DictDel(config_data, "lora_folder_path")

\* lines 53-68: the checks by provider, then the dataclass
ValidateAndBuild(config_data) ==
    LET provider == DictGet(config_data, "provider", None)
    IN  IF provider = "comfyui"
        THEN IF ~Truthy(config_data, "comfyui_url") THEN Raised("ValueError")
             ELSE IF ~Truthy(config_data, "workflow_file") THEN Raised("ValueError")
             ELSE IF "enable_loras" \notin DOMAIN config_data THEN Raised("ValueError")
             ELSE ImagynConfig(config_data)
        ELSE IF provider = "replicate"
        THEN IF "replicate" \notin DOMAIN config_data THEN Raised("ValueError")
             ELSE ImagynConfig(config_data)
        ELSE Raised("ValueError")

\* models.py lines 36-68, ImagynConfig.load_from_file
load_from_file(file) ==
    IF ~file.exists THEN Raised("FileNotFoundError")
    ELSE LET popped == PopLoraFolderPath(file.data)
         IN  IF "replicate" \in DOMAIN popped
             THEN LET replicate == ReplicateConfig(popped["replicate"])
                  IN  IF replicate.raised # "none" THEN Raised(replicate.raised)
                      ELSE ValidateAndBuild([popped EXCEPT !["replicate"] =
                                                 replicate.value[1]])
             ELSE ValidateAndBuild(popped)

\* the old-style file of tests/test_backward_compatibility.py, lines 22-32
OldConfig ==
    [comfyui_url |-> "http://localhost:8000", workflow_file |-> "workflows/fluxkrea.json",
     enable_loras |-> TRUE, lora_folder_path |-> "/old/path/to/loras/",
     output_folder |-> "output", max_concurrent_generations |-> 3,
     default_generation_timeout |-> 300, http_timeout |-> 60, websocket_timeout |-> 30]

\* a file of today
NewConfig ==
    [provider |-> "comfyui", comfyui_url |-> "http://localhost:8000",
     workflow_file |-> "workflows/fluxkrea.json", enable_loras |-> TRUE,
     output_folder |-> "output", websocket_timeout |-> 30]

ConfigFile(data) == [exists |-> TRUE, data |-> data]

\* the configuration files tried: the old-style one; the one of today, with
\* and without the deprecated key; files that lack what their provider
\* needs; a replicate file; a file with a key that is no field; no file; a
\* file that disables LoRAs; a file that allows one generation at a time and
\* 100 seconds for each
ConfigFiles ==
    << ConfigFile(OldConfig),
       ConfigFile(NewConfig),
       ConfigFile(("lora_folder_path" :> "/old/path/to/loras/") @@ NewConfig),
       ConfigFile(DictDel(NewConfig, "workflow_file")),
       ConfigFile(DictDel(NewConfig, "enable_loras")),
       ConfigFile(DictDel(NewConfig, "output_folder")),
       ConfigFile([provider |-> "replicate", output_folder |-> "output"]),
       ConfigFile([provider |-> "replicate", output_folder |-> "output",
                   replicate |-> [api_key |-> "r8", model_id |-> "m"]]),
       ConfigFile(("lora_folder" :> "/old/") @@ NewConfig),
       [exists |-> FALSE, data |-> <<>>],
       ConfigFile([NewConfig EXCEPT !.enable_loras = FALSE]),
       ConfigFile([max_concurrent_generations |-> 1, default_generation_timeout |-> 100]
                  @@ NewConfig) >>

\* imagyn_server.py line 29, in MCPServer.__init__: the configuration is
\* loaded; an exception ends the process before any tool is served, and a
\* configuration of another provider than comfyui leaves this model
LoadConfig(c) ==
    /\ pc[c] = "config"
    /\ \E i \in 1..Len(ConfigFiles) :
          LET loaded == load_from_file(ConfigFiles[i])
          IN  /\ config' = <<[file |-> i, loaded |-> loaded]>>
              /\ IF loaded.raised # "none"
                 THEN /\ pc' = [pc EXCEPT ![c] = "failed"]
                      /\ error' = [error EXCEPT ![c] = loaded.raised]
                 ELSE /\ pc' = [pc EXCEPT ![c] =
                                  IF loaded.value[1].provider = "comfyui" THEN "tool"
                                  ELSE "other_provider"]
                      /\ UNCHANGED error
    /\ UNCHANGED <<storeVars, clientVars, probe, object_info, heap, req, workflow, roles,
                   seed, prompt_id, start_time, recv_start, closed_seen, history,
                   image_info, result, sent, serverVars>>

\* the configuration the server process runs with
Config == config[1].loaded.value[1]

\* lines 226-235: the arguments generate_image is called with
Passed(request) ==
    [request EXCEPT !.loras = IF Config.enable_loras THEN @ ELSE <<>>,
                    !.enable_loras = Config.enable_loras]

\* a bug: the answer of check_connection is not looked at
HandleGenerate_probeIgnored(c) ==
    /\ pc[c] = "tool"
    /\ IF req[c].loras # <<>> /\ ~Config.enable_loras
       THEN /\ pc' = [pc EXCEPT ![c] = "answered_loras_disabled"]
            /\ UNCHANGED <<probe, error, sent, req>>
       ELSE \E i \in 1..Len(SystemStatsAnswers) :
               LET returned == check_connection(SystemStatsAnswers[i])
               IN  /\ probe' = <<[answer |-> i, returned |-> returned]>>
                   /\ sent' = [sent EXCEPT ![c] = Append(@, "GET /system_stats")]
                   /\ pc' = [pc EXCEPT ![c] = "call"]
                   /\ req' = [req EXCEPT ![c] = Passed(@)]
                   /\ UNCHANGED error
    /\ UNCHANGED <<storeVars, clientVars, config, object_info, heap, workflow, roles,
                   seed, prompt_id, start_time, recv_start, closed_seen, history,
                   image_info, result, serverVars>>

\* imagyn_server.py lines 196-235, _handle_generate_image up to the call of
\* generate_image: the answer for LoRAs asked of a server that has them
\* disabled (lines 204-208, a return), then check_connection and the answer
\* for a server not reached, then the arguments of generate_image
HandleGenerate(c) ==
    /\ pc[c] = "tool"
    /\ IF req[c].loras # <<>> /\ ~Config.enable_loras
       THEN /\ pc' = [pc EXCEPT ![c] = "answered_loras_disabled"]
            /\ UNCHANGED <<probe, error, sent, req>>
       ELSE \E i \in 1..Len(SystemStatsAnswers) :
               LET returned == check_connection(SystemStatsAnswers[i])
               IN  /\ probe' = <<[answer |-> i, returned |-> returned]>>
                   /\ sent' = [sent EXCEPT ![c] = Append(@, "GET /system_stats")]
                   /\ IF returned.raised # "none"
                      THEN /\ pc' = [pc EXCEPT ![c] = "failed"]
                           /\ error' = [error EXCEPT ![c] = returned.raised]
                           /\ UNCHANGED req
                      ELSE /\ pc' = [pc EXCEPT ![c] =
                                       IF returned.value[1] THEN "call"
                                       ELSE "answered_cannot_connect"]
                           /\ req' = [req EXCEPT ![c] =
                                        IF returned.value[1] THEN Passed(@) ELSE @]
                           /\ UNCHANGED error
    /\ UNCHANGED <<storeVars, clientVars, config, object_info, heap, workflow, roles,
                   seed, prompt_id, start_time, recv_start, closed_seen, history,
                   image_info, result, serverVars>>

\* the task of the store that serves the handler
HandlerTask == "s1"

\* lines 238-242: generate_image has returned, and store_image is called
\* with its image and metadata, and with include_base64=True
HandleStore(c) ==
    /\ pc[c] = "done"
    /\ stask[HandlerTask].asked = <<>>
    /\ StoreFile(HandlerTask, result[c][1].image_data, result[c][1].metadata, TRUE)

\* lines 264-269 and 187-192: an exception of generate_image, or of the
\* handler before it, is caught and answered as a text
HandleException(c) ==
    /\ pc[c] = "failed"
    /\ config # <<>> /\ config[1].loaded.raised = "none"
    /\ pc' = [pc EXCEPT ![c] = "answered_error"]
    /\ UNCHANGED <<storeVars, clientVars, toolVars, heap, req, workflow, roles, seed,
                   prompt_id, start_time, recv_start, error, closed_seen, history,
                   image_info, result, sent, serverVars>>

\* the process from its start: the section 8 scenario of the specification
InitTool ==
    /\ InitCalls
    /\ heap = [o \in {TemplateObj} \cup Calls |->
                 IF o = TemplateObj THEN BuildTemplate(<<T_dog, T_ugly>>, RestNodes)
                 ELSE <<>>]
    /\ req = [c \in Calls |->
                Request(P_cat, N_fog, <<(<<>>), [hi |-> 26889, lo |-> 0]>>,
                        << <<(<<"b">>)>>, TRUE >>)]
    /\ epochHi = 26889
    /\ catalog = <<L_a, L_b>>
    /\ object_info = CatalogAnswer(<<L_a, L_b>>)
    /\ websocket_timeout = 30
    /\ pc = [c \in Calls |-> "config"]

NextTool ==
    \/ \E c \in Calls : LoadConfig(c)
    \/ \E c \in Calls : HandleGenerate(c)
    \/ Next
    \/ \E c \in Calls : HandleStore(c)
    \/ StoreRecord(HandlerTask)
    \/ SaveOpen(HandlerTask)
    \/ SaveWrite(HandlerTask)
    \/ \E c \in Calls : HandleException(c)

SpecTool == InitTool /\ [][NextTool]_vars

-----------------------------------------------------------------------------
(* The store alone: images are stored and retrieved; no call is made *)

LookupIds == {Uuids[i] : i \in 1..uuids} \cup {"u0"}

InitStorage ==
    /\ InitCalls
    /\ heap = [o \in {TemplateObj} \cup Calls |-> <<>>]
    /\ req = [c \in Calls |-> Request(P_cat, <<>>, <<(<<>>), [hi |-> 26889, lo |-> 0]>>,
                                     <<(<<>>), TRUE, (<<>>)>>)]
    /\ epochHi = 26889
    /\ catalog = <<>>
    /\ object_info = CatalogAnswer(<<>>)
    /\ websocket_timeout = 30
    /\ pc = [c \in Calls |-> "idle"]

NextStore ==
    \/ \E t \in StoreTasks, input \in StoreInputs :
          StoreFile(t, input[1], input[2], input[3])
    \/ \E t \in StoreTasks : StoreRecord(t)
    \/ \E t \in StoreTasks : SaveOpen(t)
    \/ \E t \in StoreTasks : SaveWrite(t)
    \/ \E t \in StoreTasks, image_id \in LookupIds, include_base64 \in BOOLEAN :
          GetImage(t, image_id, include_base64)
    \/ \E t \in StoreTasks, entry \in RecentEntries, limit \in RecentLimits :
          ListRecent(t, entry, limit)
    \/ \E t \in StoreTasks, image_id \in LookupIds : DeleteEntry(t, image_id)

SpecStore == InitStorage /\ [][NextStore]_vars

\* the store with its statistics: images are stored and deleted, and
\* get_storage_stats is called between the calls
NextStats ==
    \/ \E t \in StoreTasks, input \in StoreInputs :
          StoreFile(t, input[1], input[2], input[3])
    \/ \E t \in StoreTasks : StoreRecord(t)
    \/ \E t \in StoreTasks : SaveOpen(t)
    \/ \E t \in StoreTasks : SaveWrite(t)
    \/ \E t \in StoreTasks, image_id \in LookupIds : DeleteEntry(t, image_id)
    \/ \E t \in StoreTasks : Stats(t)

SpecStats == InitStorage /\ [][NextStats]_vars

-----------------------------------------------------------------------------
(* The store under concurrent calls: two tasks of one event loop call
   store_image and delete_image, and are interleaved where they await.
   _save_metadata is followed at the grain of its suspension points. *)

RaceTasks == {"s1", "s2"}

\* what the two tasks store: the records differ by their ids, paths and times
RaceInputs == { <<(<<0, 1, 255>>), Meta_cat, TRUE>> }

\* line 44: the await of aiofiles.open(metadata_file, 'w'); the open of the
\* thread pool empties metadata.json
SaveAwaitOpen(t) ==
    /\ stask[t].step = "save"
    /\ metadata_file' = [state |-> "empty", content |-> <<>>]
    /\ stask' = [stask EXCEPT ![t].step = "dumps"]
    /\ UNCHANGED <<_metadata_cache, images_folder, uuids, stored, heap, clientVars,
                   toolVars, callVars, serverVars>>

\* line 45: the task resumes and json.dumps(self._metadata_cache) makes the
\* text of the cache as it is at that moment; f.write is then awaited
SaveDumps(t) ==
    /\ stask[t].step = "dumps"
    /\ stask' = [stask EXCEPT ![t].step = "flush",
                              ![t].lookup = <<[dumped |-> _metadata_cache]>>]
    /\ UNCHANGED <<_metadata_cache, metadata_file, images_folder, uuids, stored, heap,
                   clientVars, toolVars, callVars, serverVars>>

\* What metadata.json holds after a text is written through a handle that
\* was opened before the file got its present content: the handle writes
\* from offset 0 and does not cut the file, so a text shorter than the file
\* leaves the file's tail behind it, and json.load fails on the result.
\* The text of an index is no shorter than that of an index whose records
\* are among its own, and shorter than one that has more; of two others
\* either may be the longer.
Lands(dumped, file) ==
    LET whole == [state |-> "json", content |-> dumped]
        mixed == [state |-> "partial", content |-> <<>>]
    IN  IF file.state \in {"absent", "empty"} THEN {whole}
        ELSE IF file.state = "json" /\ DOMAIN file.content \subseteq DOMAIN dumped
        THEN {whole}
        ELSE IF file.state = "json" /\ DOMAIN dumped \subseteq DOMAIN file.content
        THEN {mixed}
        ELSE {whole, mixed}

\* a bug: the text written is of the cache as it is when the write lands
SaveFlush_fresh(t) ==
    /\ stask[t].step = "flush"
    /\ metadata_file' \in Lands(_metadata_cache, metadata_file)
    /\ stask' = [stask EXCEPT ![t].step = "idle",
                              ![t].got = Returned(stask[t].pending)]
    /\ UNCHANGED <<_metadata_cache, images_folder, uuids, stored, heap, clientVars,
                   toolVars, callVars, serverVars>>

\* line 45 and the end of the `async with`: the text reaches the file when
\* the thread pool writes and closes; store_image then returns the image
\* (line 85), delete_image True (line 166)
SaveFlush(t) ==
    /\ stask[t].step = "flush"
    /\ metadata_file' \in Lands(stask[t].lookup[1].dumped, metadata_file)
    /\ stask' = [stask EXCEPT ![t].step = "idle",
                              ![t].got = Returned(stask[t].pending)]
    /\ UNCHANGED <<_metadata_cache, images_folder, uuids, stored, heap, clientVars,
                   toolVars, callVars, serverVars>>

InitRace ==
    /\ InitCallsOf(RaceTasks)
    /\ heap = [o \in {TemplateObj} \cup Calls |-> <<>>]
    /\ req = [c \in Calls |-> Request(P_cat, <<>>, <<(<<>>), [hi |-> 26889, lo |-> 0]>>,
                                     <<(<<>>), TRUE, (<<>>)>>)]
    /\ epochHi = 26889
    /\ catalog = <<>>
    /\ object_info = CatalogAnswer(<<>>)
    /\ websocket_timeout = 30
    /\ pc = [c \in Calls |-> "idle"]

NextRace ==
    \/ \E t \in RaceTasks, input \in RaceInputs :
          StoreFile(t, input[1], input[2], input[3])
    \/ \E t \in RaceTasks : StoreRecord(t)
    \/ \E t \in RaceTasks, image_id \in LookupIds : DeleteEntry(t, image_id)
    \/ \E t \in RaceTasks : SaveAwaitOpen(t)
    \/ \E t \in RaceTasks : SaveDumps(t)
    \/ \E t \in RaceTasks : SaveFlush(t)

SpecRace == InitRace /\ [][NextRace]_vars

-----------------------------------------------------------------------------
(* The store across a crash: the process ends at any point of a call, and
   ImageStorage is constructed again over the same output folder *)

\* storage.py lines 33-40, _load_metadata: the cache stays {} (line 30) when
\* metadata.json is absent, and becomes {} when json.load fails on it
_load_metadata(file) == IF file.state = "json" THEN file.content ELSE <<>>

\* the index as it was before the call a task is in, or as it is when the
\* task is in no call
IndexBefore(t) ==
    IF stask[t].step = "idle" THEN _metadata_cache ELSE stask[t].asked[1].before

\* The process ends; what the open file had been given may or may not have
\* reached the disk in part.  Then lines 20-31: the new instance loads
\* metadata.json.  The task's record keeps the step the process ended at
\* (lookup), the index before the interrupted call (before) and the index in
\* memory when the process ended (pending).
Crash ==
    /\ \E torn \in BOOLEAN :
          metadata_file' =
              IF torn /\ \E t \in StoreTasks : stask[t].step = "write"
              THEN [state |-> "partial", content |-> <<>>]
              ELSE metadata_file
    /\ _metadata_cache' = _load_metadata(metadata_file')
    /\ stask' = [t \in StoreTasks |->
                   [step |-> "idle", generated_image |-> <<>>,
                    lookup |-> <<[step |-> stask[t].step]>>,
                    got |-> <<>>,
                    asked |-> <<[op |-> "restart", image_id |-> "", limit |-> 0,
                                 entry |-> "storage", before |-> IndexBefore(t)]>>,
                    pending |-> <<_metadata_cache>>]]
    /\ UNCHANGED <<images_folder, uuids, stored, heap, clientVars, toolVars, callVars,
                   serverVars>>

\* the calls that change the index or the files, and the crash
NextCrash ==
    \/ \E t \in StoreTasks, input \in StoreInputs :
          StoreFile(t, input[1], input[2], input[3])
    \/ \E t \in StoreTasks : StoreRecord(t)
    \/ \E t \in StoreTasks : SaveOpen(t)
    \/ \E t \in StoreTasks : SaveWrite(t)
    \/ \E t \in StoreTasks, image_id \in LookupIds : DeleteEntry(t, image_id)
    \/ Crash

SpecCrash == InitStorage /\ [][NextCrash]_vars

-----------------------------------------------------------------------------
(* Properties of prompt assignment, checked under SpecPatch *)

Tmpl == heap[TemplateObj]

\* the workflow the call's local names
Wf(c) == heap[workflow[c]]

\* the call has just returned from _apply_prompt_to_workflow
AfterPrompt(c) == pc[c] = "seed"

EncoderPositions(g) == {i \in 1..Len(g) : g[i].class_type = "CLIPTextEncode"}

Least(S) == CHOOSE i \in S : \A j \in S : i <= j

\* the k-th text encoder of g, in declared order
FirstEncoder(g) == Least(EncoderPositions(g))
SecondEncoder(g) == Least(EncoderPositions(g) \ {FirstEncoder(g)})

TextAt(g, i) == IF "text" \in DOMAIN g[i].inputs THEN g[i].inputs.text ELSE NoText

PositionOf(g, id) == CHOOSE i \in 1..Len(g) : g[i].id = id

TextOfNode(g, id) == TextAt(g, PositionOf(g, id))

\* the node's template text holds one of the five words, whatever the case
HasVocabulary(g, i) ==
    LET text == IF "text" \in DOMAIN g[i].inputs THEN g[i].inputs.text ELSE <<>>
    IN  \E w \in {W_negative, W_bad, W_worst, W_ugly, W_blurry} :
            Contains(w, Lower(text))

\* C7, as stated: with at least one text encoder, after prompt assignment the
\* positive node's text is the request prompt, and if a negative node exists
\* and the negative prompt is not empty the negative node's text is the
\* negative prompt.
C7_PositiveTextIsPrompt ==
    \A c \in Calls :
        (AfterPrompt(c) /\ EncoderPositions(Tmpl) # {}) =>
            /\ roles[c].positive # None
            /\ TextOfNode(Wf(c), roles[c].positive) = req[c].prompt
            /\ (roles[c].negative # None /\ req[c].negative_prompt # <<>>) =>
                   TextOfNode(Wf(c), roles[c].negative) = req[c].negative_prompt

\* C7, amended: the positive node's text is the request prompt unless a
\* negative prompt is supplied and either there is no negative node (then it
\* is the prompt, ". Avoid: " and the negative prompt) or the negative role is
\* on the same node (then it is the negative prompt); and if a negative node
\* exists and the negative prompt is not empty the negative node's text is the
\* negative prompt.
C7_PromptTexts ==
    \A c \in Calls :
        (AfterPrompt(c) /\ EncoderPositions(Tmpl) # {}) =>
            LET p == roles[c].positive
                n == roles[c].negative
                neg == req[c].negative_prompt
            IN  /\ p # None
                /\ TextOfNode(Wf(c), p) =
                      IF neg = <<>> THEN req[c].prompt
                      ELSE IF n = None THEN req[c].prompt \o AvoidSep \o neg
                      ELSE IF n = p THEN neg
                      ELSE req[c].prompt
                /\ (n # None /\ neg # <<>>) => TextOfNode(Wf(c), n) = neg

C7_Witness ==
    /\ AfterPrompt("c1")
    /\ roles["c1"].positive # None
    /\ roles["c1"].negative # None
    /\ roles["c1"].negative # roles["c1"].positive
    /\ req["c1"].negative_prompt # <<>>
    /\ TextOfNode(Wf("c1"), roles["c1"].positive) = req["c1"].prompt
    /\ TextOfNode(Wf("c1"), roles["c1"].negative) = req["c1"].negative_prompt

\* C34: prompt assignment never puts the positive and the negative role on
\* the same text encoder, so a negative prompt never replaces the prompt.
C34_RolesOnDistinctNodes ==
    \A c \in Calls :
        (AfterPrompt(c) /\ roles[c].positive # None) =>
            /\ roles[c].positive # roles[c].negative
            /\ req[c].negative_prompt # <<>> =>
                  TextOfNode(Wf(c), roles[c].positive) # req[c].negative_prompt

\* C8: in declared order, the first text encoder whose template text holds
\* none of the five words is the positive node and the first whose text holds
\* one is the negative node; the first node is the positive one only when no
\* node is free of the words, the second the negative one only when no node
\* holds a word.
C8_RolesByContentThenOrder ==
    \A c \in Calls :
        AfterPrompt(c) =>
            LET enc == EncoderPositions(Tmpl)
                matching == {i \in enc : HasVocabulary(Tmpl, i)}
                free == enc \ matching
            IN  /\ roles[c].positive =
                      IF free # {} THEN Tmpl[Least(free)].id
                      ELSE IF enc # {} THEN Tmpl[Least(enc)].id
                      ELSE None
                /\ roles[c].negative =
                      IF matching # {} THEN Tmpl[Least(matching)].id
                      ELSE IF Cardinality(enc) > 1 THEN Tmpl[SecondEncoder(Tmpl)].id
                      ELSE None

\* content decides against the order: the first encoder is the negative node
\* and the second the positive one
C8_Witness ==
    /\ AfterPrompt("c1")
    /\ Cardinality(EncoderPositions(Tmpl)) >= 2
    /\ roles["c1"].negative = Tmpl[FirstEncoder(Tmpl)].id
    /\ roles["c1"].positive = Tmpl[SecondEncoder(Tmpl)].id

TwoPlainEncoders ==
    /\ Cardinality(EncoderPositions(Tmpl)) = 2
    /\ \A i \in EncoderPositions(Tmpl) : ~HasVocabulary(Tmpl, i)

\* C9, as stated: with two text encoders, neither holding a word of the
\* vocabulary, the first gets the prompt and the second the negative prompt.
C9_SecondGetsNegativePrompt ==
    \A c \in Calls :
        (AfterPrompt(c) /\ TwoPlainEncoders) =>
            /\ TextAt(Wf(c), FirstEncoder(Tmpl)) = req[c].prompt
            /\ TextAt(Wf(c), SecondEncoder(Tmpl)) = req[c].negative_prompt

\* C9, amended: the first gets the prompt; the second gets the negative
\* prompt when that is not empty, and is left as in the template when it is.
C9_OrderFallback ==
    \A c \in Calls :
        (AfterPrompt(c) /\ TwoPlainEncoders) =>
            /\ TextAt(Wf(c), FirstEncoder(Tmpl)) = req[c].prompt
            /\ req[c].negative_prompt # <<>> =>
                   TextAt(Wf(c), SecondEncoder(Tmpl)) = req[c].negative_prompt
            /\ req[c].negative_prompt = <<>> =>
                   Wf(c)[SecondEncoder(Tmpl)] = Tmpl[SecondEncoder(Tmpl)]

C9_Witness ==
    /\ AfterPrompt("c1")
    /\ TwoPlainEncoders
    /\ req["c1"].negative_prompt # <<>>
    /\ TextAt(Wf("c1"), FirstEncoder(Tmpl)) = req["c1"].prompt
    /\ TextAt(Wf("c1"), SecondEncoder(Tmpl)) = req["c1"].negative_prompt
    /\ TextAt(Tmpl, SecondEncoder(Tmpl)) # req["c1"].negative_prompt

\* C10: with exactly one text encoder and an empty negative prompt, the graph
\* after prompt assignment is the template but for that node's text input,
\* which is the prompt.
C10_OnlyTheTextChanges ==
    \A c \in Calls :
        (AfterPrompt(c) /\ Cardinality(EncoderPositions(Tmpl)) = 1
                        /\ req[c].negative_prompt = <<>>) =>
            LET e == FirstEncoder(Tmpl)
            IN  /\ Len(Wf(c)) = Len(Tmpl)
                /\ \A i \in 1..Len(Tmpl) : i # e => Wf(c)[i] = Tmpl[i]
                /\ Wf(c)[e].id = Tmpl[e].id
                /\ Wf(c)[e].class_type = Tmpl[e].class_type
                /\ DOMAIN Wf(c)[e].inputs = DOMAIN Tmpl[e].inputs \cup {"text"}
                /\ \A k \in DOMAIN Tmpl[e].inputs :
                       k # "text" => Wf(c)[e].inputs[k] = Tmpl[e].inputs[k]
                /\ Wf(c)[e].inputs.text = req[c].prompt

C10_Witness ==
    /\ AfterPrompt("c1")
    /\ Cardinality(EncoderPositions(Tmpl)) = 1
    /\ req["c1"].negative_prompt = <<>>
    /\ Len(Tmpl) > 1
    /\ TextAt(Tmpl, FirstEncoder(Tmpl)) # req["c1"].prompt
    /\ TextAt(Wf("c1"), FirstEncoder(Tmpl)) = req["c1"].prompt

\* C11: with a text encoder and a negative prompt that is not empty, if no
\* node has the negative role the positive node's text is the prompt, then
\* ". Avoid: ", then the negative prompt; and in every case some text encoder
\* of the patched graph holds the negative prompt in its text.
C11_NegativePromptNeverDiscarded ==
    \A c \in Calls :
        (AfterPrompt(c) /\ EncoderPositions(Tmpl) # {}
                        /\ req[c].negative_prompt # <<>>) =>
            /\ roles[c].negative = None =>
                   /\ roles[c].positive # None
                   /\ TextOfNode(Wf(c), roles[c].positive) =
                          req[c].prompt \o AvoidSep \o req[c].negative_prompt
            /\ \E i \in EncoderPositions(Wf(c)) :
                   Contains(req[c].negative_prompt, TextAt(Wf(c), i))

\* one encoder, free of the words: the negative prompt was appended
C11_Witness ==
    /\ AfterPrompt("c1")
    /\ Cardinality(EncoderPositions(Tmpl)) = 1
    /\ roles["c1"].negative = None
    /\ req["c1"].negative_prompt = N_fog
    /\ TextAt(Wf("c1"), FirstEncoder(Tmpl)) = P_cat \o AvoidSep \o N_fog

-----------------------------------------------------------------------------
(* Properties of seed, dimension and adapter assignment, under SpecPatch *)

SamplerClasses == {"KSampler", "KSamplerAdvanced", "SamplerCustom"}

\* node i of g is of a sampler class and declares a seed input
SeededSampler(g, i) ==
    g[i].class_type \in SamplerClasses /\ "seed" \in DOMAIN g[i].inputs

\* C13: the step of seed assignment sets the seed input of every node of a
\* sampler class that declares one to the resolved seed, and leaves every
\* other node, and every other input of those nodes, as it was.
C13_SeedOnlyOnSeededSamplers ==
    [][\A c \in Calls :
          (pc[c] = "seed" /\ pc'[c] = "dims") =>
              LET before == heap[workflow[c]]
                  after == heap'[workflow[c]]
              IN  /\ Len(after) = Len(before)
                  /\ \A i \in 1..Len(before) :
                        IF SeededSampler(before, i)
                        THEN after[i] = [before[i] EXCEPT !.inputs.seed = seed[c][1]]
                        ELSE after[i] = before[i]
      ]_vars

\* after the assignment: the sampler with a seed has the resolved one, which
\* the template did not have, next to a sampler without a seed input and a
\* node of another class with one
C13_Witness ==
    /\ pc["c1"] = "dims"
    /\ \E i \in 1..Len(Tmpl) :
          /\ SeededSampler(Tmpl, i)
          /\ Wf("c1")[i].inputs.seed = seed["c1"][1]
          /\ Tmpl[i].inputs.seed # seed["c1"][1]
    /\ \E i \in 1..Len(Tmpl) :
          Tmpl[i].class_type \in SamplerClasses /\ ~SeededSampler(Tmpl, i)
    /\ \E i \in 1..Len(Tmpl) :
          Tmpl[i].class_type \notin SamplerClasses /\ "seed" \in DOMAIN Tmpl[i].inputs

LoaderPositions(g) == {i \in 1..Len(g) : g[i].class_type = "LoraLoader"}

\* the step of adapter assignment of a call that asks for an adapter, with
\* adapters enabled, on a graph that has a loader
AdapterStep(c) ==
    /\ pc[c] = "loras"
    /\ pc'[c] = "queue"
    /\ req[c].enable_loras
    /\ req[c].loras # <<>>
    /\ LoaderPositions(heap[workflow[c]]) # {}

\* the entries of cat that hold name, whatever the case
Holding(name, cat) ==
    {i \in 1..Len(cat) : Contains(Lower(name), Lower(cat[i]))}

\* the name the specification's four rules give, for a catalog with entries
Resolved(name, cat) ==
    IF \E i \in 1..Len(cat) : cat[i] = name THEN name
    ELSE IF \E i \in 1..Len(cat) : cat[i] = name \o Ext_safetensors
    THEN name \o Ext_safetensors
    ELSE IF Holding(name, cat) # {} THEN cat[Least(Holding(name, cat))]
    ELSE cat[1]

C15_FirstLoaderFirstNameOnly ==
    [][\A c \in Calls :
          (pc[c] = "loras" /\ pc'[c] = "queue") =>
              LET before == heap[workflow[c]]
                  after == heap'[workflow[c]]
                  loaders == LoaderPositions(before)
              IN  /\ Len(after) = Len(before)
                  /\ \A i \in 1..Len(before) :
                        (loaders = {} \/ i # Least(loaders)) => after[i] = before[i]
                  /\ (loaders # {} /\ after # before) =>
                        /\ req[c].loras # <<>>
                        /\ catalog # <<>>
                        /\ after[Least(loaders)].inputs.lora_name =
                               Resolved(req[c].loras[1], catalog)
      ]_vars

\* two names were requested and the template has two loaders: the first
\* loader has the name resolved from the first, the second loader its own
C15_Witness ==
    /\ pc["c1"] = "queue"
    /\ Len(req["c1"].loras) = 2
    /\ Cardinality(LoaderPositions(Tmpl)) = 2
    /\ Resolved(req["c1"].loras[1], catalog) # Resolved(req["c1"].loras[2], catalog)
    /\ LET first == Least(LoaderPositions(Tmpl))
           second == Least(LoaderPositions(Tmpl) \ {first})
       IN  /\ Wf("c1")[first].inputs.lora_name = Resolved(req["c1"].loras[1], catalog)
           /\ Wf("c1")[second] = Tmpl[second]

\* the graph has no node of any class an assignment looks for
NoCategory(g) ==
    \A i \in 1..Len(g) :
        g[i].class_type \notin
            {"CLIPTextEncode", "LoraLoader"} \cup SamplerClasses
            \cup {"EmptyLatentImage", "EmptySD3LatentImage", "EmptyFluxLatentImage"}

\* C16: on a template with no text encoder, sampler, latent-size or loader
\* node, each of the four assignments returns, no role is given, no catalog
\* is asked for, and the graph after each of them is the template.
C16_MissingCategoriesNoEffect ==
    /\ [](\A c \in Calls :
            (NoCategory(Tmpl) /\ pc[c] \in {"prompt", "seed", "dims", "loras", "queue"}) =>
                /\ Wf(c) = Tmpl
                /\ roles[c] = NoRoles
                /\ error[c] = "none"
                /\ sent[c] = <<>>)
    /\ [][\A c \in Calls :
            (NoCategory(Tmpl) /\ pc[c] \in {"prompt", "seed", "dims", "loras"}) =>
                ENABLED (PatchPrompt(c) \/ PatchSeed(c) \/ PatchDims(c) \/ PatchLoras(c))
         ]_vars

\* all four assignments were made on a template of nodes of other classes,
\* for a request with a negative prompt and an adapter
C16_Witness ==
    /\ pc["c1"] = "queue"
    /\ Tmpl = UnpatchableTemplate
    /\ req["c1"].negative_prompt # <<>>
    /\ req["c1"].loras # <<>>
    /\ req["c1"].enable_loras
    /\ Wf("c1") = Tmpl

-----------------------------------------------------------------------------
(* Properties of generate_image and wait_for_completion *)

Waiting(c) == pc[c] \in {"loop", "recv"}

Elapsed(c) == now - start_time[c]

\* C1: no step of a generate_image call changes the caller's template, on
\* the way to a result or to any failure.
C1_TemplateNeverMutated == [][heap'[TemplateObj] = heap[TemplateObj]]_vars

\* a call has returned an image, having patched its own copy
C1_Witness ==
    \E c \in Calls :
        /\ pc[c] = "done"
        /\ workflow[c] # TemplateObj
        /\ heap[workflow[c]] # heap[TemplateObj]

\* C3: the wait fails with TimeoutError, the websocket still open, only when
\* timeout seconds have passed since start_time; at the loop condition it does
\* fail once they have; a per-receive timeout leaves the call in the loop with
\* no error; and under SpecFair the wait does end.
C3_TimedOutWhenElapsed ==
    /\ [][\A c \in Calls :
            /\ (error[c] = "none" /\ error'[c] = "TimeoutError" /\ ~closed_seen'[c])
                   => Elapsed(c) >= timeout
            /\ (pc[c] = "loop" /\ Elapsed(c) >= timeout /\ pc'[c] # pc[c])
                   => (pc'[c] = "failed" /\ error'[c] = "TimeoutError")
            /\ (pc[c] = "loop" /\ Elapsed(c) < timeout /\ pc'[c] # pc[c])
                   => (pc'[c] = "recv" /\ error'[c] = "none")
            /\ (pc[c] = "recv" /\ inbox[c] = <<>> /\ socket[c] = "open"
                    /\ pc'[c] # pc[c])
                   => (pc'[c] = "loop" /\ error'[c] = "none"
                       /\ now - recv_start[c] >= websocket_timeout)
         ]_vars
    /\ \A c \in Calls : Waiting(c) ~> ~Waiting(c)

\* the wait timed out on an open websocket after a per-receive timeout that
\* was no error: the own job never ended
C3_Witness ==
    \E c \in Calls :
        /\ pc[c] = "failed"
        /\ error[c] = "TimeoutError"
        /\ ~closed_seen[c]
        /\ jobs[OwnJob(c)] = "queued"
        /\ websocket_timeout < timeout

\* C4, as stated: when the websocket closes before the completion message
\* and before the timeout, the call fails with ConnectionLost, not TimedOut.
C4_ClosedIsConnectionLost ==
    \A c \in Calls :
        (closed_seen[c] /\ Elapsed(c) < timeout) =>
            (pc[c] = "failed" /\ error[c] # "TimeoutError"
             /\ JobState(c) = "ConnectionLost")

\* C5: the wait ends in the history request only on the message of type
\* "executing" with node null and the call's own prompt_id; any other message
\* received leaves the call in the loop; so a call past the wait has its own
\* job finished, whatever other jobs of the client have done.
C5_OnlyOwnCompletionEndsWait ==
    /\ [][\A c \in Calls :
            /\ (pc[c] = "recv" /\ pc'[c] = "history") =>
                   /\ inbox[c] # <<>>
                   /\ Head(inbox[c]).type = "executing"
                   /\ Head(inbox[c]).node = None
                   /\ Head(inbox[c]).prompt_id = prompt_id[c]
            /\ (pc[c] = "recv" /\ inbox[c] # <<>> /\ pc'[c] # pc[c]
                  /\ Head(inbox[c]) # Terminal(prompt_id[c])) =>
                   (pc'[c] = "loop" /\ JobState(c)' = "Waiting")
         ]_vars
    /\ [](\A c \in Calls :
            JobState(c) = "Completed" => jobs[OwnJob(c)] = "finished")

\* the call is about to receive the completion message of another job
C5_Witness ==
    \E c \in Calls :
        /\ pc[c] = "recv"
        /\ inbox[c] # <<>>
        /\ Head(inbox[c]).type = "executing"
        /\ Head(inbox[c]).node = None
        /\ Head(inbox[c]).prompt_id # prompt_id[c]

JobSteps ==
    { <<"NotSubmitted", "Submitted">>, <<"Submitted", "Waiting">>,
      <<"Waiting", "Completed">>, <<"Waiting", "TimedOut">>,
      <<"Waiting", "ConnectionLost">> }

Requested(c, what) == \E i \in 1..Len(sent[c]) : sent[c][i] = what

\* C6: a job goes Submitted, Waiting, then Completed, TimedOut or
\* ConnectionLost; the download is requested only when the job is Completed,
\* its completion message pushed and its history fetched, the history only
\* when it is Completed; and once TimedOut or ConnectionLost nothing more is
\* requested.
C6_DownloadOnlyFromCompleted ==
    /\ [][\A c \in Calls :
            /\ JobState(c)' # JobState(c) => <<JobState(c), JobState(c)'>> \in JobSteps
            /\ JobState(c) \in {"TimedOut", "ConnectionLost"} => sent'[c] = sent[c]
         ]_vars
    /\ [](\A c \in Calls :
            /\ Requested(c, "GET /view") =>
                   /\ JobState(c) = "Completed"
                   /\ jobs[OwnJob(c)] = "finished"
                   /\ history[c] # <<>>
                   /\ Requested(c, "GET /history")
            /\ Requested(c, "GET /history") =>
                   (JobState(c) = "Completed" /\ jobs[OwnJob(c)] = "finished")
            /\ JobState(c) \in {"TimedOut", "ConnectionLost"} =>
                   (~Requested(c, "GET /history") /\ ~Requested(c, "GET /view")))

\* a job went all the way to the download
C6_Witness ==
    \E c \in Calls :
        /\ pc[c] = "done"
        /\ JobState(c) = "Completed"
        /\ sent[c][Len(sent[c])] = "GET /view"

\* how many times the call has issued a request
Issued(c, what) == Cardinality({i \in 1..Len(sent[c]) : sent[c][i] = what})

\* C25: no automatic retry.  A generate_image call submits at most once,
\* opens at most one websocket and downloads at most once; an exception of
\* any step (HTTP error of the submission, of the history or of the download,
\* TimeoutError, RuntimeError) ends the call: it is failed with that
\* exception from then on, issues no further request and returns no result.
C25_NoRetry ==
    /\ [](\A c \in Calls :
            /\ Issued(c, "POST /prompt") <= 1
            /\ Issued(c, "WS /ws") <= 1
            /\ Issued(c, "GET /view") <= 1
            /\ error[c] # "none" <=> pc[c] = "failed"
            /\ pc[c] = "failed" => result[c] = <<>>)
    /\ [][\A c \in Calls :
            pc[c] = "failed" =>
                /\ pc'[c] = "failed"
                /\ error'[c] = error[c]
                /\ sent'[c] = sent[c]
         ]_vars

\* C25 witness: the download failed after one submission and one websocket,
\* and the call ended with that error
C25_Witness ==
    \E c \in Calls :
        /\ pc[c] = "failed"
        /\ error[c] = "HTTPStatusError"
        /\ Issued(c, "POST /prompt") = 1
        /\ Issued(c, "WS /ws") = 1
        /\ Issued(c, "GET /view") = 1

\* the requests of a kind that the client has issued
CarriedBy(request) == {i \in 1..Len(carried) : carried[i].request = request}

\* C26: the client id is the one drawn when the ComfyUIClient was constructed
\* and never changes; every POST /prompt of the instance carries it, and
\* every websocket the instance opens is addressed with it, however many jobs
\* the instance submits.
C26_OneClientId ==
    /\ [](\A i \in 1..Len(carried) : carried[i].client_id = client_id)
    /\ [][client_id' = client_id]_vars

\* C26 witness: two jobs were submitted and a websocket was opened
C26_Witness ==
    /\ Cardinality(CarriedBy("POST /prompt")) = 2
    /\ Cardinality(CarriedBy("WS /ws")) = 1
    /\ \A i \in 1..Len(carried) : carried[i].client_id = client_id

\* C35: once the server has pushed the completion message of a call's job,
\* the call does not time out while its websocket is open, unless the
\* message is among those it has yet to receive: the job is completed
\* whatever the order of the server's and the call's steps, also when the
\* server ends the job between queue_prompt and the opening of the websocket.
C35_CompletionIsNeverMissed ==
    [][\A c \in Calls :
          (/\ pc[c] = "loop"
           /\ pc'[c] = "failed"
           /\ error'[c] = "TimeoutError"
           /\ socket[c] = "open"
           /\ jobs[OwnJob(c)] = "finished") =>
              \E i \in 1..Len(inbox[c]) : inbox[c][i] = Terminal(prompt_id[c])
      ]_vars

\* the execution record's node outputs, in their order
OutputsOf(c) == DictGet(history[c][1], "outputs", <<>>)

\* the positions of the node outputs that contain an "images" list
ImageNodes(c) == {i \in 1..Len(OutputsOf(c)) : "images" \in DOMAIN OutputsOf(c)[i].out}

\* the images list of the first node output that contains one
FirstList(c) == OutputsOf(c)[Least(ImageNodes(c))].out.images

\* the extraction has run on the execution record
Extracted(c) == history[c] # <<>> /\ pc[c] # "extract"

\* C24 as claimed: the extraction takes the first element of the images list
\* of the first node output that contains one, and fails (RuntimeError, the
\* code's NoOutputFound) only when no node output contains an images list.
C24_FailsOnlyWithoutImagesList ==
    \A c \in Calls :
        Extracted(c) =>
            IF ImageNodes(c) = {} THEN error[c] = "RuntimeError" /\ image_info[c] = <<>>
            ELSE /\ error[c] # "RuntimeError"
                 /\ image_info[c] = <<FirstList(c)[1]>>

\* C24 as amended: the extraction fails exactly when no node output contains
\* an images list or the first such list is empty; otherwise it takes the
\* first element of that first list, whatever later nodes hold.
C24_FirstImageOfFirstList ==
    \A c \in Calls :
        Extracted(c) =>
            IF ImageNodes(c) = {} \/ FirstList(c) = <<>>
            THEN error[c] = "RuntimeError" /\ image_info[c] = <<>>
            ELSE /\ error[c] # "RuntimeError"
                 /\ image_info[c] = <<FirstList(c)[1]>>

\* C24 witness: two nodes hold images, and the first image of the first was
\* taken, which is not the image of the second
C24_Witness ==
    \E c \in Calls :
        /\ Extracted(c)
        /\ Cardinality(ImageNodes(c)) = 2
        /\ image_info[c] = <<Img2>>
        /\ OutputsOf(c)[2].out.images = <<Img1>>

\* the adapter names the call wrote into its graph: the lora_name of every
\* adapter loader that is not as the template has it
WrittenAdapters(c) ==
    LET changed == {i \in LoaderPositions(Tmpl) :
                       Wf(c)[i].inputs.lora_name # Tmpl[i].inputs.lora_name}
    IN  {Wf(c)[i].inputs.lora_name : i \in changed}

\* C38: loras_used in the metadata of a successful generation names only
\* adapters that were written into the submitted graph: none when the
\* template has no adapter loader, when adapters are disabled or when the
\* catalog gave nothing, and else just the entry the name was resolved to.
C38_LorasUsedWereWritten ==
    \A c \in Calls :
        result[c] # <<>> =>
            LET loras_used == result[c][1].metadata.loras_used
            IN  {loras_used[i] : i \in 1..Len(loras_used)} = WrittenAdapters(c)

-----------------------------------------------------------------------------
(* Properties of the store, checked under SpecStore *)

\* the retrieval task t has just made, if it was one of a stored image with
\* the image text asked for
RetrievedWithText(t) ==
    /\ stask[t].step = "idle"
    /\ stask[t].lookup # <<>>
    /\ stask[t].lookup[1].image_id \in DOMAIN _metadata_cache
    /\ stask[t].lookup[1].include_base64

\* C2, as stated: an image stored and then retrieved with its image text
\* comes back with the bytes and the metadata that were stored.
C2_StoreThenGetRoundTrips ==
    \A t \in StoreTasks :
        RetrievedWithText(t) =>
            LET given == stored[stask[t].lookup[1].image_id]
                got == stask[t].got
            IN  /\ got.raised = "none"
                /\ got.value # <<>>
                /\ got.value[1].base64_data # <<>>
                /\ b64decode(got.value[1].base64_data[1]) = given.image_data
                /\ got.value[1].metadata = given.metadata

\* task t has returned from a call op of the store
Made(t, op) ==
    /\ stask[t].step = "idle"
    /\ stask[t].asked # <<>>
    /\ stask[t].asked[1].op = op

Records == DOMAIN _metadata_cache

\* C17, as stated: with n records and 1 <= limit <= n, the listing of the
\* store returns limit records, no record twice, none older than the one after
\* it, and none older than a record left out.
C17_RecentNewestFirst ==
    \A t \in StoreTasks :
        (Made(t, "recent") /\ stask[t].asked[1].entry = "storage"
            /\ stask[t].asked[1].limit >= 1
            /\ stask[t].asked[1].limit <= Cardinality(Records)) =>
            LET listed == stask[t].got.value
                ids == {listed[i].image_id : i \in 1..Len(listed)}
            IN  /\ stask[t].got.raised = "none"
                /\ Len(listed) = stask[t].asked[1].limit
                /\ Cardinality(ids) = Len(listed)
                /\ ids \subseteq Records
                /\ \A i, j \in 1..Len(listed) :
                       i < j => listed[i].created_at >= listed[j].created_at
                /\ \A i \in 1..Len(listed) : \A k \in Records \ ids :
                       listed[i].created_at >= stored[k].created_at

\* C18, as stated: whatever the limit asked for, of the store or of either
\* server, the listing never holds more than 50 records and, when the store
\* has a record, holds at least one.
C18_LimitClamped ==
    \A t \in StoreTasks :
        Made(t, "recent") =>
            /\ stask[t].got.raised = "none"
            /\ Len(stask[t].got.value) <= 50
            /\ Records # {} => stask[t].got.value # <<>>

\* C19, as stated: a retrieval raises nothing; it gives None for an id not in
\* the index, and for a record without stored image text whose file is gone
\* when the text is asked for, and the record in every other case.
C19_GetNotFoundOrRecord ==
    \A t \in StoreTasks :
        Made(t, "get") =>
            LET image_id == stask[t].lookup[1].image_id
                include_base64 == stask[t].lookup[1].include_base64
                got == stask[t].got
            IN  /\ got.raised = "none"
                /\ IF image_id \notin Records THEN got.value = <<>>
                   ELSE IF /\ include_base64
                           /\ _metadata_cache[image_id]["image_base64"] = <<>>
                           /\ stored[image_id].file_path \notin DOMAIN images_folder
                   THEN got.value = <<>>
                   ELSE got.value # <<>> /\ got.value[1].image_id = image_id

\* C20: delete_image returns whether the id was in the index when it was
\* called.  When it returns True the id is in neither the cache nor
\* metadata.json, which hold every other entry as it was; the step that
\* returns False changes neither of them nor any file.
C20_DeleteRemovesExactlyOne ==
    /\ [](\A t \in StoreTasks :
            Made(t, "delete") =>
                LET image_id == stask[t].asked[1].image_id
                    before == stask[t].asked[1].before
                IN  /\ stask[t].got = Returned(<<image_id \in DOMAIN before>>)
                    /\ image_id \in DOMAIN before =>
                          /\ Records = DOMAIN before \ {image_id}
                          /\ \A k \in Records : _metadata_cache[k] = before[k]
                          /\ metadata_file.state = "json"
                          /\ metadata_file.content = _metadata_cache
                    /\ image_id \notin DOMAIN before => _metadata_cache = before)
    /\ [][\A t \in StoreTasks :
            (stask'[t] # stask[t] /\ stask[t].step = "idle" /\ stask'[t].step = "idle"
                /\ stask'[t].asked[1].op = "delete") =>
                /\ stask'[t].got = Returned(<<FALSE>>)
                /\ UNCHANGED <<_metadata_cache, metadata_file, images_folder>>
         ]_vars

\* a record was deleted from a store of two, and the other is still in the
\* cache and in metadata.json
C20_Witness ==
    \E t \in StoreTasks :
        /\ Made(t, "delete")
        /\ stask[t].got = Returned(<<TRUE>>)
        /\ Cardinality(DOMAIN stask[t].asked[1].before) = 2
        /\ Cardinality(Records) = 1
        /\ DOMAIN metadata_file.content = Records

\* C32: delete_image of a record that store_image made, whose file is on
\* disk, removes that file: after the call neither the index entry nor the
\* file remains.
C32_DeleteRemovesFile ==
    \A t \in StoreTasks :
        (Made(t, "delete") /\ stask[t].asked[1].image_id \in DOMAIN stask[t].asked[1].before) =>
            LET image_id == stask[t].asked[1].image_id
            IN  /\ image_id \notin Records
                /\ stored[image_id].file_path \notin DOMAIN images_folder

-----------------------------------------------------------------------------
(* Properties of the probe and of the configuration, checked under SpecTool *)

\* what GET /system_stats came to when check_connection was called
ProbeAnswer == SystemStatsAnswers[probe[1].answer]

\* C27: check_connection never raises; it returns True exactly when the
\* request was answered with status 200, and False for every other status
\* and for every failure of the transport.
C27_ProbeNeverRaises ==
    probe # <<>> =>
        /\ probe[1].returned.raised = "none"
        /\ probe[1].returned.value =
              <<ProbeAnswer.transport = "ok" /\ ProbeAnswer.status = 200>>
        /\ \A c \in Calls : error[c] \notin {"ConnectError", "ReadTimeout"}

\* C27 witness: the transport failed, and check_connection returned False
C27_Witness ==
    /\ probe # <<>>
    /\ ProbeAnswer.transport = "ConnectError"
    /\ probe[1].returned = Returned(<<FALSE>>)
    /\ \E c \in Calls : pc[c] = "answered_cannot_connect"

\* the configuration file that load_from_file was given
LoadedFile == ConfigFiles[config[1].file]

\* an old-style file: the deprecated lora_folder_path and no provider
OldStyle(file) ==
    /\ file.exists
    /\ {"comfyui_url", "workflow_file", "enable_loras", "output_folder",
        "lora_folder_path"} \subseteq DOMAIN file.data
    /\ "provider" \notin DOMAIN file.data

\* C30: an old-style configuration file, with comfyui_url, workflow_file,
\* enable_loras, output_folder and the deprecated lora_folder_path but no
\* provider, loads, and the loaded configuration has no lora_folder_path.
C30_OldConfigLoads ==
    (config # <<>> /\ OldStyle(LoadedFile)) =>
        /\ config[1].loaded.raised = "none"
        /\ "lora_folder_path" \notin DOMAIN config[1].loaded.value[1]

-----------------------------------------------------------------------------
(* Properties of the generate_image tool, checked under SpecTool *)

\* the configuration was loaded and the server serves its tools
Serving ==
    /\ config # <<>>
    /\ config[1].loaded.raised = "none"
    /\ config[1].loaded.value[1].provider = "comfyui"

\* C33: with LoRAs asked of a server that has them disabled, the tool goes
\* on without them: it does not answer before it has tried to generate.
C33_DisabledLorasStillGenerates ==
    \A c \in Calls :
        (Serving /\ ~Config.enable_loras /\ req[c].loras # <<>>
             /\ pc[c] \notin {"config", "tool"}) =>
            /\ pc[c] # "answered_loras_disabled"
            /\ Requested(c, "GET /system_stats")

\* the store has not been touched
StoreUntouched ==
    /\ _metadata_cache = <<>>
    /\ images_folder = <<>>
    /\ metadata_file.state = "absent"
    /\ stask[HandlerTask].asked = <<>>

\* C37: the tool submits a job only after check_connection returned True,
\* and calls store_image only after generate_image returned, with what it
\* returned; when the probe is False or the generation fails, the index and
\* the files are as they were, and the failure is answered, not raised.
C37_ProbeThenJobThenStore ==
    /\ [](\A c \in Calls :
            /\ Issued(c, "POST /prompt") >= 1 =>
                  (probe # <<>> /\ probe[1].returned.value = <<TRUE>>)
            /\ stask[HandlerTask].asked # <<>> =>
                  /\ result[c] # <<>>
                  /\ \A image_id \in DOMAIN stored :
                        /\ stored[image_id].image_data = result[c][1].image_data
                        /\ stored[image_id].metadata = result[c][1].metadata
            /\ (pc[c] \in {"answered_cannot_connect", "failed", "answered_error"}
                    \/ result[c] = <<>>) => StoreUntouched)
    /\ [][\A c \in Calls :
            (Serving /\ pc[c] = "failed" /\ pc'[c] # pc[c]) =>
                (pc'[c] = "answered_error" /\ error'[c] = error[c])
         ]_vars

\* the probe was True, the job ran, and its image is in the store
C37_Witness ==
    \E c \in Calls :
        /\ pc[c] = "done"
        /\ probe[1].returned.value = <<TRUE>>
        /\ Made(HandlerTask, "store")
        /\ Cardinality(Records) = 1
        /\ metadata_file.state = "json"

\* C39: the wait of a job is bounded by the configured
\* default_generation_timeout: at the loop condition the call fails with
\* TimeoutError once that many seconds have passed since it began to wait.
C39_TimesOutAtConfiguredTimeout ==
    [][\A c \in Calls :
          (Serving /\ pc[c] = "loop" /\ pc'[c] # pc[c]
              /\ Elapsed(c) >= Config.default_generation_timeout) =>
              (pc'[c] = "failed" /\ error'[c] = "TimeoutError")
      ]_vars

\* the jobs of the server process that are submitted and neither completed
\* nor failed: the followed call's, and those of its other calls
InFlight ==
    {k \in 1..Len(jobs) :
        /\ jobs[k] = "queued"
        /\ \A c \in Calls :
              prompt_id[c] = JobIds[k] => pc[c] \in {"connect", "loop", "recv"}}

\* C40: at every moment at most max_concurrent_generations jobs of the
\* server process are in flight.
C40_AtMostMaxConcurrent ==
    Serving => Cardinality(InFlight) <= Config.max_concurrent_generations

-----------------------------------------------------------------------------
(* Properties of the catalog query, checked under SpecCatalog *)

\* the body has the documented shape: LoraLoader.input.required.lora_name is
\* a list whose first element is a list of file names
Documented(body) ==
    /\ body.t = "dict" /\ "LoraLoader" \in DOMAIN body.v
    /\ LET loader == body.v["LoraLoader"]
       IN  /\ loader.t = "dict" /\ "input" \in DOMAIN loader.v
           /\ LET input == loader.v["input"]
              IN  /\ input.t = "dict" /\ "required" \in DOMAIN input.v
                  /\ LET required == input.v["required"]
                     IN  /\ required.t = "dict" /\ "lora_name" \in DOMAIN required.v
                         /\ LET options == required.v["lora_name"]
                            IN  /\ options.t = "list" /\ Len(options.v) > 0
                                /\ options.v[1].t = "list"
                                /\ \A i \in 1..Len(options.v[1].v) :
                                      options.v[1].v[i].t = "str"

\* the catalog query fails: a transport error, a status outside 2xx, a body
\* that is not JSON or not of the documented shape
QueryFails(response) ==
    \/ response.transport # "ok"
    \/ ~IsSuccess(response.status)
    \/ ~response.parses
    \/ ~Documented(response.json)

\* the call has made its catalog query
Queried(c) == \E i \in 1..Len(sent[c]) : sent[c][i] = "GET /object_info"

\* C28: the catalog query never propagates a failure: on a transport error,
\* a status outside 2xx or a malformed body it gives the empty list, and the
\* generation goes on to submit with every adapter loader's lora_name and
\* strengths as in the template.
C28_CatalogFailureIsEmptyList ==
    /\ [](\A c \in Calls :
            (Queried(c) /\ QueryFails(object_info)) =>
                /\ _get_available_loras_from_server(object_info) = Returned(<<(<<>>)>>)
                /\ \A i \in LoaderPositions(Tmpl) : Wf(c)[i] = Tmpl[i]
                /\ pc[c] # "queue" => Issued(c, "POST /prompt") = 1)
    /\ [][\A c \in Calls :
            (pc[c] = "loras" /\ pc'[c] # "loras" /\ QueryFails(object_info)) =>
                /\ pc'[c] = "queue"
                /\ error'[c] = "none"
                /\ heap'[workflow[c]] = heap[workflow[c]]
         ]_vars

\* a malformed body was answered, and the job was submitted with the loaders
\* as the template has them
C28_Witness ==
    /\ Queried("c1")
    /\ object_info.transport = "ok" /\ object_info.status = 200 /\ object_info.parses
    /\ ~Documented(object_info.json)
    /\ Issued("c1", "POST /prompt") = 1
    /\ LoaderPositions(Tmpl) # {}
    /\ \A i \in LoaderPositions(Tmpl) : Wf("c1")[i] = Tmpl[i]
    /\ pc["c1"] = "connect"

-----------------------------------------------------------------------------
(* Properties of the statistics, checked under SpecStats *)

RECURSIVE BackingBytes(_)
\* the sizes of the files the records of these ids were stored in, a file
\* that is not on disk counting 0
BackingBytes(ids) ==
    IF ids = {} THEN 0
    ELSE LET image_id == CHOOSE a \in ids : TRUE
             file_path == stored[image_id].file_path
         IN  (IF file_path \in DOMAIN images_folder
              THEN Len(images_folder[file_path]) ELSE 0)
             + BackingBytes(ids \ {image_id})

\* the task's last call was get_storage_stats
AskedStats(t) == stask[t].asked # <<>> /\ stask[t].asked[1].op = "stats"

\* C29: the statistics count the index entries, and their total of bytes is
\* the sum of the sizes of the entries' backing files that are on disk; with
\* k images stored and none deleted it is the sum of the k sizes.
C29_StatsSumBackingFiles ==
    \A t \in StoreTasks :
        AskedStats(t) =>
            LET stats == stask[t].got.value[1]
            IN  /\ stask[t].got.raised = "none"
                /\ stats.total_images = Cardinality(DOMAIN _metadata_cache)
                /\ stats.total_size_bytes = BackingBytes(DOMAIN _metadata_cache)

-----------------------------------------------------------------------------
(* Properties of the store across a crash, checked under SpecCrash *)

\* the file a record of the index names: its image_url without "file://"
BackingFile(record) == record["image_url"][2]

\* every record of the index names a file that is on disk with the bytes
\* that were stored under the record's id
Backed(index) ==
    \A image_id \in DOMAIN index :
        /\ BackingFile(index[image_id]) \in DOMAIN images_folder
        /\ images_folder[BackingFile(index[image_id])] = stored[image_id].image_data

\* the new instance has just been constructed
Restarted(t) == stask[t].asked # <<>> /\ stask[t].asked[1].op = "restart"

\* C21: at every state, a crash at any step of store included, every record
\* of the index in memory and of the index on disk names a backing file that
\* has been written in full; a file without a record may exist.
C21_FileBeforeIndex ==
    /\ Backed(_metadata_cache)
    /\ Backed(metadata_file.content)

\* C21 witness: the process ended between the write of the bytes (line 65)
\* and the update of the index (line 82) of a second store; the new instance
\* holds the first record, and the second file is on disk without a record.
C21_Witness ==
    \E t \in StoreTasks :
        /\ Restarted(t)
        /\ stask[t].lookup[1].step = "record"
        /\ Cardinality(DOMAIN _metadata_cache) = 1
        /\ \E file_path \in DOMAIN images_folder :
              \A image_id \in DOMAIN _metadata_cache :
                  BackingFile(_metadata_cache[image_id]) # file_path

\* store_image has returned its image, or delete_image has returned True
Mutated(t) ==
    /\ stask[t].asked # <<>>
    /\ stask[t].got # <<>>
    /\ stask[t].got.raised = "none"
    /\ \/ stask[t].asked[1].op = "store"
       \/ stask[t].asked[1].op = "delete" /\ stask[t].got.value = <<TRUE>>

\* C22: right after store_image or delete_image has returned successfully,
\* metadata.json holds the index that is in memory, whole: the same ids with
\* the same records.  A delete_image that returns False has written nothing
\* and leaves the two as they were: loading the file gives the index in memory.
C22_ConsistentAfterReturn ==
    \A t \in StoreTasks :
        /\ Mutated(t) =>
              /\ metadata_file.state = "json"
              /\ metadata_file.content = _metadata_cache
        /\ stask[t].step = "idle" => _load_metadata(metadata_file) = _metadata_cache

\* C22 witness: a second image has been stored and the file holds both records
C22_Witness ==
    \E t \in StoreTasks :
        /\ Mutated(t)
        /\ stask[t].asked[1].op = "store"
        /\ Cardinality(DOMAIN stask[t].asked[1].before) = 1
        /\ Cardinality(DOMAIN _metadata_cache) = 2
        /\ metadata_file.content = _metadata_cache

\* C23: metadata.json is rewritten atomically.  At every point of a store
\* or a delete, loading the file gives the whole index as it was before the
\* call or the whole index as the call made it; and a new instance
\* constructed after a crash holds one of those two, never an index that has
\* lost the records of before.
C23_IndexRewrittenAtomically ==
    \A t \in StoreTasks :
        /\ _load_metadata(metadata_file) \in {IndexBefore(t), _metadata_cache}
        /\ Restarted(t) =>
              _metadata_cache \in {stask[t].asked[1].before, stask[t].pending[1]}

-----------------------------------------------------------------------------
(* Properties of the store under concurrent calls, checked under SpecRace *)

\* task t's write of metadata.json lands in this step
Flushes(t) == stask[t].step = "flush" /\ stask'[t].step = "idle"

\* the index task t made the text of
Dumped(t) == stask[t].lookup[1].dumped

\* both tasks have returned from a call that changed the index
BothReturned ==
    \A t \in RaceTasks : stask[t].step = "idle" /\ Mutated(t)

C36_CacheChangesOnlyByOwnCall ==
    [][\A t \in RaceTasks :
          stask'[t] # stask[t] =>
              LET adds == stask[t].step = "record"
                  removes == stask[t].step = "idle" /\ stask'[t].step = "save"
              IN  /\ adds =>
                        Records' = Records \cup {stask[t].generated_image[1].image_id}
                  /\ removes =>
                        /\ stask'[t].asked[1].image_id \in Records
                        /\ Records' = Records \ {stask'[t].asked[1].image_id}
                  /\ (~adds /\ ~removes) => Records' = Records
                  /\ \A k \in Records \cap Records' :
                        _metadata_cache'[k] = _metadata_cache[k]
      ]_vars

\* two stores were interleaved, both have returned, both records are in
\* memory, and metadata.json holds no index
C36_Witness ==
    /\ BothReturned
    /\ \A t \in RaceTasks :
          /\ stask[t].asked[1].op = "store"
          /\ stask[t].asked[1].image_id \in Records
    /\ Cardinality(Records) = 2
    /\ metadata_file.state = "partial"

-----------------------------------------------------------------------------
(* Properties of the seed, checked under SpecSeed *)

\* the call has returned from _apply_seed_to_workflow
SeedApplied(c) == pc[c] \notin {"idle", "call", "prompt", "seed"}

SamplerPositions(g) ==
    {i \in 1..Len(g) : g[i].class_type \in {"KSampler", "KSamplerAdvanced", "SamplerCustom"}}

\* the seed inputs of the sampler nodes of g
SamplerSeeds(g) ==
    {g[i].inputs.seed : i \in {j \in SamplerPositions(g) : "seed" \in DOMAIN g[j].inputs}}

IsUint32(s) == s.hi \in 0..(Half - 1) /\ s.lo \in 0..(Half - 1)

\* C12: once the seed is assigned, every sampler seed of the call's graph is
\* below 2^32 when the request has no seed, and is the request's seed when it
\* has one, 0 included; and the metadata the call returns reports that seed.
C12_SeedInRangeAndReported ==
    \A c \in Calls :
        SeedApplied(c) =>
            /\ SamplerSeeds(Wf(c)) # {}
            /\ \A s \in SamplerSeeds(Wf(c)) :
                  /\ req[c].seed = <<>> => IsUint32(s)
                  /\ req[c].seed # <<>> => s = req[c].seed[1]
                  /\ result[c] # <<>> => result[c][1].metadata.seed = s

\* a call with no seed of its own, on a clock past 2^32, returned its image
C12_Witness ==
    \E c \in Calls :
        /\ pc[c] = "done"
        /\ req[c].seed = <<>>
        /\ epochHi >= Half
        /\ result[c][1].metadata.seed \in SamplerSeeds(Wf(c))
        /\ result[c][1].metadata.seed \notin SamplerSeeds(Tmpl)

====
